---- MODULE Spec2Model ----
(***************************************************************************)
(* A model of the asynchronous directive dispatcher of ai_npc              *)
(* (core/llm_controller.py, LLMController) and of the request/consume      *)
(* gate of its agents (core/npc.py, NPC.update).                           *)
(*                                                                         *)
(* Python strings that the code inspects (tasks, backend text) are         *)
(* sequences of one-character strings, so that replace, strip, split,      *)
(* startswith and the regular expression of _get_openai_response are       *)
(* computed rather than assumed.  Identifiers that the code only compares  *)
(* or uses as dictionary keys (npc_id, npc_type, the player-interaction    *)
(* tag) are plain strings.                                                 *)
(***************************************************************************)
EXTENDS Integers, Sequences, FiniteSets, TLC

(***************************************************************************)
(* Bounds of the model                                                     *)
(***************************************************************************)
\* clock readings per NPC_UPDATE_INTERVAL
StepsPerInterval == 2
\* the clock stops after this many update intervals
MaxIntervals == 2
\* requests one client passes to queue_npc_task_request of one controller
MaxRequests == 2
\* worker threads one controller creates over its lifetime
MaxThreads == 2
\* outcomes of one random.choice that are followed: the first MaxDraws
\* entries of the list it draws from
MaxDraws == 2

(***************************************************************************)
(* Program constants                                                       *)
(***************************************************************************)
NPC_UPDATE_INTERVAL == 10000

TimeStep == NPC_UPDATE_INTERVAL \div StepsPerInterval
MaxTime == MaxIntervals * NPC_UPDATE_INTERVAL

(***************************************************************************)
(* Python values                                                           *)
(***************************************************************************)
\* Python's None, where the code stores or returns it
None == [py_none |-> TRUE]

\* an empty dict
EmptyDict == [k \in {} |-> None]

\* d[k] = v
DictSet(d, k, v) == [x \in (DOMAIN d) \cup {k} |-> IF x = k THEN v ELSE d[x]]

\* del d[k]
DictDel(d, k) == [x \in (DOMAIN d) \ {k} |-> d[x]]

\* d.get(k)
DictGet(d, k) == IF k \in DOMAIN d THEN d[k] ELSE None

\* \s of the re module, and the characters str.strip() and str.split() drop
Whitespace == {" ", "\t", "\n", "\r", "\f"}

\* a in s, for one character a
HasChar(s, a) == \E i \in 1..Len(s) : s[i] = a

\* s.replace(a, b) for single characters a, b
Replace(s, a, b) == [i \in 1..Len(s) |-> IF s[i] = a THEN b ELSE s[i]]

\* s.startswith(p)
StartsWith(s, p) == Len(p) <= Len(s) /\ SubSeq(s, 1, Len(p)) = p

\* s.strip()
Strip(s) ==
    LET keep == {i \in 1..Len(s) : s[i] \notin Whitespace}
        Min(S) == CHOOSE x \in S : \A y \in S : x <= y
        Max(S) == CHOOSE x \in S : \A y \in S : x >= y
    IN  IF keep = {} THEN <<>> ELSE SubSeq(s, Min(keep), Max(keep))

\* s.split()[0]; s holds a character that is not whitespace
SplitFirst(s) ==
    LET keep == {i \in 1..Len(s) : s[i] \notin Whitespace}
        first == CHOOSE x \in keep : \A y \in keep : x <= y
        stops == {i \in first..Len(s) : s[i] \in Whitespace}
        last == IF stops = {} THEN Len(s)
                ELSE (CHOOSE x \in stops : \A y \in stops : x <= y) - 1
    IN  SubSeq(s, first, last)

\* the outcomes of random.choice(list) that are followed
Drawn(list) == {list[i] : i \in 1..(IF Len(list) < MaxDraws THEN Len(list) ELSE MaxDraws)}

\* x in list
InList(x, list) == \E i \in 1..Len(list) : list[i] = x

\* list.remove(x): the first occurrence goes, x is in the list
ListRemove(list, x) ==
    LET at == CHOOSE i \in 1..Len(list) :
                  list[i] = x /\ \A j \in 1..(i - 1) : list[j] # x
    IN  SubSeq(list, 1, at - 1) \o SubSeq(list, at + 1, Len(list))

\* ListFilterNotPrefix that filters nothing
ListFilterNotPrefix_KeepsAll(list, base) == list

\* [t for t in list if not t.startswith(base)]
RECURSIVE ListFilterNotPrefix(_, _)
ListFilterNotPrefix(list, base) ==
    IF list = <<>> THEN <<>>
    ELSE IF StartsWith(Head(list), base)
         THEN ListFilterNotPrefix(Tail(list), base)
         ELSE <<Head(list)>> \o ListFilterNotPrefix(Tail(list), base)

(***************************************************************************)
(* Task strings of _get_mock_response                                      *)
(***************************************************************************)
TaskNames ==
    [ patrol |-> <<"p", "a", "t", "r", "o", "l">>,
      follow_player |-> <<"f", "o", "l", "l", "o", "w", " ", "p", "l", "a", "y", "e", "r">>,
      guard_position |-> <<"g", "u", "a", "r", "d", " ", "p", "o", "s", "i", "t", "i", "o", "n">>,
      wander |-> <<"w", "a", "n", "d", "e", "r">>,
      idle |-> <<"i", "d", "l", "e">>,
      greet_nearby |-> <<"g", "r", "e", "e", "t", " ", "n", "e", "a", "r", "b", "y">>,
      tend_crops |-> <<"t", "e", "n", "d", " ", "c", "r", "o", "p", "s">>,
      rest_at_home |-> <<"r", "e", "s", "t", " ", "a", "t", " ", "h", "o", "m", "e">>,
      talk_to_others |-> <<"t", "a", "l", "k", " ", "t", "o", " ", "o", "t", "h", "e", "r", "s">>,
      inspect_surroundings |-> <<"i", "n", "s", "p", "e", "c", "t", " ", "s", "u", "r", "r", "o", "u", "n", "d", "i", "n", "g", "s">>,
      sell_wares |-> <<"s", "e", "l", "l", " ", "w", "a", "r", "e", "s">>,
      manage_inventory |-> <<"m", "a", "n", "a", "g", "e", " ", "i", "n", "v", "e", "n", "t", "o", "r", "y">> ]

\* available_tasks with "inspect surroundings" among the common tasks
available_tasks_InspectCommon ==
    [common |-> <<TaskNames.patrol, TaskNames.follow_player, TaskNames.guard_position, TaskNames.wander,
                  TaskNames.idle, TaskNames.greet_nearby, TaskNames.inspect_surroundings>>,
     villager |-> <<TaskNames.tend_crops, TaskNames.rest_at_home, TaskNames.talk_to_others>>,
     guard |-> <<>>,
     merchant |-> <<TaskNames.sell_wares, TaskNames.manage_inventory>>]

\* available_tasks of _get_mock_response
available_tasks ==
    [common |-> <<TaskNames.patrol, TaskNames.follow_player, TaskNames.guard_position, TaskNames.wander,
                  TaskNames.idle, TaskNames.greet_nearby>>,
     villager |-> <<TaskNames.tend_crops, TaskNames.rest_at_home, TaskNames.talk_to_others>>,
     guard |-> <<TaskNames.inspect_surroundings>>,
     merchant |-> <<TaskNames.sell_wares, TaskNames.manage_inventory>>]

\* interactive_tasks with a task of the guards
interactive_tasks_Inspect == <<TaskNames.follow_player, TaskNames.inspect_surroundings>>

\* interactive_tasks of _get_mock_response
interactive_tasks == <<TaskNames.follow_player, TaskNames.greet_nearby>>

\* query.get(key, default)
QueryGet(query, key, default) ==
    IF key \in DOMAIN query THEN query[key] ELSE default

\* task_options of _get_mock_response once the type-specific tasks are
\* added: the common tasks, extended with the tasks of npc_type when
\* available_tasks has that key
TypedTaskOptions(query) ==
    LET npc_type == QueryGet(query, "npc_type", "villager")
    IN  available_tasks.common \o
        (IF npc_type \in DOMAIN available_tasks
         THEN available_tasks[npc_type] ELSE <<>>)

\* MockTaskOptions that leaves current_task in the list
MockTaskOptions_Unpruned(query) ==
    LET typed == TypedTaskOptions(query)
    IN  IF query.player_interaction \in {"player nearby", "player very close"}
        THEN typed \o interactive_tasks \o interactive_tasks \o interactive_tasks
        ELSE typed

\* the list random.choice draws from at the end of _get_mock_response
MockTaskOptions(query) ==
    LET typed == TypedTaskOptions(query)
        weighted == IF query.player_interaction \in {"player nearby", "player very close"}
                    THEN typed \o interactive_tasks \o interactive_tasks
                               \o interactive_tasks
                    ELSE typed
        current_task == query.current_task
        current_base_task == IF HasChar(current_task, " ")
                             THEN SplitFirst(current_task) ELSE current_task
        pruned == IF InList(current_task, weighted) /\ Len(weighted) > 1
                  THEN ListFilterNotPrefix(ListRemove(weighted, current_task),
                                           current_base_task)
                  ELSE weighted
    IN  IF pruned = <<>> THEN available_tasks.common ELSE pruned

\* the responses _get_mock_response(query) can return
MockResponses(query) ==
    {[new_task |-> new_task] : new_task \in Drawn(MockTaskOptions(query))}

(***************************************************************************)
(* The backend call of _get_openai_response.  What the service answers is  *)
(* outside the program: a raw response is a record                         *)
(*   transport   "ok", or "raise" when chat.completions.create raises      *)
(*   tool_calls  "call" (one tool call), "empty" ([]), or "None"           *)
(*   name        tool_call.function.name                                   *)
(*   arguments   tool_call.function.arguments once json.loads has read it: *)
(*               [valid, has_task, task, has_description, description];    *)
(*               valid is FALSE when json.loads raises JSONDecodeError     *)
(*   content     message.content, a string or None                         *)
(***************************************************************************)
\* the key the regular expression looks for, the separator of a task and
\* its description, and the texts of the answers the backend is given
Texts ==
    [ task |-> <<"t", "a", "s", "k">>,
      colon_space |-> <<":", " ">>,
      follow_player |-> <<"f", "o", "l", "l", "o", "w", "_", "p", "l", "a", "y", "e", "r">>,
      stay_close |-> <<"s", "t", "a", "y", " ", "c", "l", "o", "s", "e">>,
      new_task_wander |-> <<"n", "e", "w", "_", "t", "a", "s", "k", ":", " ", "\"", "w", "a", "n", "d", "e", "r", "\"">>,
      task_blank |-> <<"{", "\"", "t", "a", "s", "k", "\"", ":", " ", "\"", " ", "\"", "}">> ]

\* the outcome of a call that raises instead of returning
Raised == [raised |-> TRUE]

\* ["\s:] of the pattern
IsSepChar(ch) == ch = "\"" \/ ch \in Whitespace \/ ch = ":"

\* ["\s}] of the pattern
IsEndChar(ch) == ch = "\"" \/ ch \in Whitespace \/ ch = "}"

\* The pattern task["\s:]+([^"]+?)["\s}] matches at position i with a
\* separator run of k characters and a group of m characters.
PatternMatches(content, i, k, m) ==
    /\ i + 3 + k + m + 1 <= Len(content)
    /\ SubSeq(content, i, i + 3) = Texts.task
    /\ \A j \in 1..k : IsSepChar(content[i + 3 + j])
    /\ \A j \in 1..m : content[i + 3 + k + j] # "\""
    /\ IsEndChar(content[i + 3 + k + m + 1])

\* re.search(r'task["\s:]+([^"]+?)["\s}]', content): None, or group(1) in a
\* one-element tuple.  The leftmost start wins; there the greedy separator
\* run is the longest that lets the rest match, and the lazy group the
\* shortest.
TaskMatch(content) ==
    LET n == Len(content)
        matches == {x \in (1..n) \X (1..n) \X (1..n) :
                       PatternMatches(content, x[1], x[2], x[3])}
        Preferred(x, y) ==
            \/ x[1] < y[1]
            \/ x[1] = y[1] /\ x[2] > y[2]
            \/ x[1] = y[1] /\ x[2] = y[2] /\ x[3] <= y[3]
        Group(x) == SubSeq(content, x[1] + 3 + x[2] + 1, x[1] + 3 + x[2] + x[3])
    IN  IF matches = {} THEN <<>>
        ELSE <<Group(CHOOSE x \in matches : \A y \in matches : Preferred(x, y))>>

\* the except branch of _get_openai_response: text extraction from content
ExtractFromContent(raw) ==
    IF raw.content # None /\ raw.content.text # <<>>
          /\ TaskMatch(raw.content.text) # <<>>
    THEN [new_task |-> Strip(TaskMatch(raw.content.text)[1])]
    ELSE [new_task |-> TaskNames.idle]

\* FormatToolCall that keeps the underscores of the task
FormatToolCall_KeepsUnderscores(args) ==
    LET task == IF args.has_task THEN args.task ELSE TaskNames.idle
        description == IF args.has_description THEN args.description ELSE <<>>
    IN  IF description # <<>>
        THEN [new_task |-> task \o Texts.colon_space \o description]
        ELSE [new_task |-> task]

\* the try branch of _get_openai_response once args is a dict
FormatToolCall(args) ==
    LET task == IF args.has_task THEN args.task ELSE TaskNames.idle
        description == IF args.has_description THEN args.description ELSE <<>>
    IN  IF description # <<>>
        THEN [new_task |-> Replace(task, "_", " ") \o Texts.colon_space \o description]
        ELSE [new_task |-> Replace(task, "_", " ")]

\* _get_openai_response on the raw response: a response dict, or Raised
\* when an exception leaves the function
ParseBackendResponse(raw) ==
    IF raw.transport = "raise" THEN Raised
    ELSE IF raw.tool_calls = "None" THEN Raised
    ELSE IF raw.tool_calls = "empty" THEN ExtractFromContent(raw)
    ELSE IF raw.name # "assign_task_to_npc" THEN [new_task |-> TaskNames.idle]
    ELSE IF ~raw.arguments.valid THEN ExtractFromContent(raw)
    ELSE FormatToolCall(raw.arguments)

(***************************************************************************)
(* Answers the backend is given in the model.                              *)
(***************************************************************************)

NoArguments ==
    [valid |-> FALSE, has_task |-> FALSE, task |-> <<>>,
     has_description |-> FALSE, description |-> <<>>]

Arguments(task, description) ==
    [valid |-> TRUE, has_task |-> TRUE, task |-> task,
     has_description |-> description # <<>>, description |-> description]

\* chat.completions.create raises (timeout, connection error)
AnswerRaise ==
    [transport |-> "raise", tool_calls |-> "None", name |-> "",
     arguments |-> NoArguments, content |-> None]

\* a tool call assign_task_to_npc(task, task_description)
AnswerToolCall(task, description) ==
    [transport |-> "ok", tool_calls |-> "call", name |-> "assign_task_to_npc",
     arguments |-> Arguments(task, description), content |-> None]

\* a tool call whose arguments hold no task
AnswerToolCallNoTask ==
    [transport |-> "ok", tool_calls |-> "call", name |-> "assign_task_to_npc",
     arguments |-> [Arguments(<<>>, <<>>) EXCEPT !.has_task = FALSE],
     content |-> None]

\* a tool call of another function
AnswerOtherFunction ==
    [transport |-> "ok", tool_calls |-> "call", name |-> "other",
     arguments |-> Arguments(Texts.follow_player, <<>>), content |-> None]

\* a tool call whose arguments are not JSON, beside a text message
AnswerBadJson(text) ==
    [transport |-> "ok", tool_calls |-> "call", name |-> "assign_task_to_npc",
     arguments |-> NoArguments, content |-> [text |-> text]]

\* no tool call ([]), and a text message or none
AnswerText(content) ==
    [transport |-> "ok", tool_calls |-> "empty", name |-> "",
     arguments |-> NoArguments, content |-> content]

\* message.tool_calls is None
AnswerNoToolCalls ==
    [transport |-> "ok", tool_calls |-> "None", name |-> "",
     arguments |-> NoArguments, content |-> None]

\* message.tool_calls is None beside a text message: what the service
\* sends when the model answers in text
AnswerTextOnly(text) ==
    [transport |-> "ok", tool_calls |-> "None", name |-> "",
     arguments |-> NoArguments, content |-> [text |-> text]]

\* text messages: a JSON object, the same object in code fences, text that
\* is not JSON, text with no task in it.  A TLA+ string cannot hold the
\* backquote of a code fence: the apostrophe stands for it, the pattern
\* of re.search names neither
ContentTexts ==
    [ json |-> <<"{", "\"", "n", "e", "w", "_", "t", "a", "s", "k", "\"", ":", "\"", "p", "a", "t", "r", "o", "l", "\"", "}">>,
      fenced |-> <<"'", "'", "'", "j", "s", "o", "n", "\n", "{", "\"", "n", "e", "w", "_", "t", "a", "s", "k", "\"", ":", "\"", "p", "a", "t", "r", "o", "l", "\"", "}", "\n", "'", "'", "'">>,
      malformed |-> <<"I", " ", "t", "h", "i", "n", "k", " ", "n", "e", "w", "_", "t", "a", "s", "k", ":", " ", "\"", "w", "a", "n", "d", "e", "r", "\"", " ", "i", "s", " ", "b", "e", "s", "t">>,
      plain |-> <<"n", "o", " ", "i", "d", "e", "a">> ]

\* no call of _get_openai_response yet
NotParsed == [called |-> FALSE, raw |-> AnswerRaise, outcome |-> Raised]

\* every path of _get_openai_response
AllBackendAnswers ==
    {AnswerRaise,
     AnswerToolCall(Texts.follow_player, Texts.stay_close),
     AnswerToolCall(TaskNames.patrol, <<>>),
     AnswerToolCall(<<>>, <<>>),
     AnswerToolCallNoTask,
     AnswerOtherFunction,
     AnswerBadJson(Texts.new_task_wander),
     AnswerText([text |-> Texts.task_blank]),
     AnswerText(None),
     AnswerNoToolCalls}

\* the answers the worker threads are given
BackendAnswers ==
    {AnswerRaise,
     AnswerToolCall(Texts.follow_player, Texts.stay_close),
     AnswerToolCall(<<>>, <<>>),
     AnswerBadJson(Texts.new_task_wander)}

\* what _get_openai_response can yield: a response, or Raised
BackendOutcomes == {ParseBackendResponse(a) : a \in BackendAnswers}

(***************************************************************************)
(* The agents and their controllers.  NPC.__init__ creates one             *)
(* LLMController per NPC (self.llm_controller = LLMController()), so a     *)
(* controller is identified by the id of the NPC that owns it.             *)
(***************************************************************************)
NPCS == {"villager_0", "guard_0"}

npc_type(n) == IF n = "villager_0" THEN "villager" ELSE "guard"

Controllers == NPCS

\* self.llm_controller of NPC n
llm_controller(n) == n

\* the tags get_player_interaction returns that the model draws from
PlayerInteractions == {"player nearby"}

\* the values of OPENAI_API_KEY: not set, a key the backend rejects, a key
\* the backend accepts
Keys == [none |-> "", invalid |-> "sk-invalid", valid |-> "sk-valid"]
ApiKeys == {Keys.none, Keys.invalid, Keys.valid}

\* what client.chat.completions.create can answer to a client built with
\* key: the backend rejects every call made with a key that is not valid
BackendAnswersFor(key) ==
    IF key = Keys.valid THEN BackendAnswers ELSE {AnswerRaise}

\* what _get_openai_response can yield with key: a response, or Raised
BackendOutcomesFor(key) ==
    IF key = Keys.valid THEN BackendOutcomes
    ELSE {ParseBackendResponse(a) : a \in BackendAnswersFor(key)}

\* JOIN_TIMEOUT is the timeout of processing_thread.join, in seconds
JOIN_TIMEOUT == 1
LLM_API_TIMEOUT == 10

VARIABLES
    now,                \* the last reading of time.time() * 1000
    current_task,       \* NPC.current_task
    waiting_for_task,   \* NPC.waiting_for_task
    last_llm_update,    \* NPC.last_llm_update
    use_mock,           \* LLMController.use_mock
    api_key,            \* LLMController.api_key, os.getenv("OPENAI_API_KEY")
    request_queue,      \* LLMController.request_queue
    response_cache,     \* LLMController.response_cache
    is_processing,      \* LLMController.is_processing
    processing_thread,  \* LLMController.processing_thread: 0 is None, else
                        \* the index in threads of the Thread object
    threads,            \* the worker threads each controller has created:
                        \* the position in _process_queue and its locals
    joining,            \* the controllers whose stop_queue_processing call
                        \* is inside processing_thread.join
    submitted,          \* history: the requests passed to
                        \* queue_npc_task_request, in order
    dequeued,           \* history: requests taken off the queue, in order
    stored,             \* history: requests whose result was cached, in order
    called,             \* history: requests whose callback was invoked, in order
    failed,             \* history: requests whose backend call raised
    stopped_at,         \* history: the number of requests submitted when
                        \* stop_queue_processing was last called
    executed,           \* history: the last call of execute_task: the
                        \* npc_type and current_task of the NPC and the
                        \* behaviour method it called
    body,               \* x, y, target_x, target_y of an NPC object whose
                        \* methods are called directly
    reached,            \* history: the last call of has_reached_target on
                        \* that NPC: its fields and the value returned
    parsed,             \* history: the last call of _get_openai_response
                        \* made directly: what the backend answered and
                        \* what the call yielded
    world               \* the GameWorld that NPC is in: width, height,
                        \* objects and npcs

npcVars == <<current_task, waiting_for_task, last_llm_update>>
ctlVars == <<use_mock, api_key, request_queue, response_cache, is_processing,
             processing_thread, threads>>
logVars == <<submitted, dequeued, stored, called, failed, stopped_at>>
unitVars == <<body, reached, parsed, world>>
vars == <<now, npcVars, ctlVars, joining, logVars, executed, unitVars>>

\* the locals of a thread that is not handling a request
NoItem == [seq |-> 0, npc_id |-> "", query |-> None, callback |-> "None"]

\* threading.Thread(target=self._process_queue).start()
NewThread ==
    [pc |-> "while", item |-> NoItem, response |-> None,
     cached |-> None, passed |-> None]

\* Thread.is_alive()
is_alive(th) == th.pc # "exited"

\* the threads of controller c that are alive
AliveThreads(c) == {t \in 1..Len(threads[c]) : is_alive(threads[c][t])}

\* the position at which a thread holds a request it has taken off the queue
Handling(th) ==
    th.pc \in {"respond", "cache", "callback", "fallback", "fallback_cache",
               "fallback_callback", "task_done"}

(***************************************************************************)
(* LLMController: the calls of the foreground thread                       *)
(***************************************************************************)
\* the condition of start_queue_processing, with a start also when the
\* shutdown flag is set
MustStart_IfStopped(c) ==
    \/ processing_thread[c] = 0
    \/ ~is_alive(threads[c][processing_thread[c]])
    \/ ~is_processing[c]

\* the condition of start_queue_processing
MustStart(c) ==
    \/ processing_thread[c] = 0
    \/ ~is_alive(threads[c][processing_thread[c]])

\* start_queue_processing
start_queue_processing(c) ==
    IF MustStart(c)
    THEN /\ Len(threads[c]) < MaxThreads
         /\ is_processing' = [is_processing EXCEPT ![c] = TRUE]
         /\ threads' = [threads EXCEPT ![c] = Append(@, NewThread)]
         /\ processing_thread' = [processing_thread EXCEPT ![c] = Len(threads[c]) + 1]
    ELSE UNCHANGED <<is_processing, threads, processing_thread>>

\* queue_npc_task_request(npc_id, query, callback)
queue_npc_task_request(c, npc_id, query, callback) ==
    LET request == [seq |-> Len(submitted[c]) + 1, npc_id |-> npc_id,
                    query |-> query, callback |-> callback]
    IN  /\ Len(submitted[c]) < MaxRequests
        /\ submitted' = [submitted EXCEPT ![c] = Append(@, request)]
        /\ request_queue' = [request_queue EXCEPT ![c] = Append(@, request)]
        /\ start_queue_processing(c)

\* get_cached_response that never finds an entry
get_cached_response_Miss(c, npc_id) == None

\* get_cached_response(npc_id)
get_cached_response(c, npc_id) == DictGet(response_cache[c], npc_id)

\* clear_cache that removes nothing
clear_cache_Noop(c, npc_id) == response_cache[c]

\* clear_cache(npc_id), as the new value of response_cache; npc_id "" is
\* a call without argument
clear_cache(c, npc_id) ==
    IF npc_id # ""
    THEN IF npc_id \in DOMAIN response_cache[c]
         THEN DictDel(response_cache[c], npc_id)
         ELSE response_cache[c]
    ELSE EmptyDict

(***************************************************************************)
(* NPC                                                                     *)
(***************************************************************************)
\* str.lower() on the letters the directives use
Letters ==
    [upper |-> <<"A", "B", "C", "D", "E", "F", "G", "H", "I", "J", "K", "L", "M",
                 "N", "O", "P", "Q", "R", "S", "T", "U", "V", "W", "X", "Y", "Z">>,
     lower |-> <<"a", "b", "c", "d", "e", "f", "g", "h", "i", "j", "k", "l", "m",
                 "n", "o", "p", "q", "r", "s", "t", "u", "v", "w", "x", "y", "z">>]

LowerChar(ch) ==
    IF \E i \in 1..26 : Letters.upper[i] = ch
    THEN Letters.lower[CHOOSE i \in 1..26 : Letters.upper[i] = ch]
    ELSE ch

Lower(s) == [i \in 1..Len(s) |-> LowerChar(s[i])]

\* sub in s
Contains(s, sub) ==
    \E i \in 1..(Len(s) - Len(sub) + 1) : SubSeq(s, i, i + Len(sub) - 1) = sub

\* any(word in s for word in words)
AnyIn(s, words) == \E word \in words : Contains(s, word)

\* s.split(":", 1)[0] for an s that contains ":"
BeforeColon(s) ==
    SubSeq(s, 1, (CHOOSE i \in 1..Len(s) :
                     s[i] = ":" /\ \A j \in 1..(i - 1) : s[j] # ":") - 1)

\* the function-style task names of execute_task
FunctionNames ==
    [ follow_player |-> <<"f", "o", "l", "l", "o", "w", "_", "p", "l", "a", "y", "e", "r">>,
      guard_position |-> <<"g", "u", "a", "r", "d", "_", "p", "o", "s", "i", "t", "i", "o", "n">>,
      tend_crops |-> <<"t", "e", "n", "d", "_", "c", "r", "o", "p", "s">>,
      rest_at_home |-> <<"r", "e", "s", "t", "_", "a", "t", "_", "h", "o", "m", "e">>,
      talk_to_others |-> <<"t", "a", "l", "k", "_", "t", "o", "_", "o", "t", "h", "e", "r", "s">>,
      inspect_surroundings |-> <<"i", "n", "s", "p", "e", "c", "t", "_", "s", "u", "r", "r", "o", "u", "n", "d", "i", "n", "g", "s">>,
      sell_wares |-> <<"s", "e", "l", "l", "_", "w", "a", "r", "e", "s">>,
      manage_inventory |-> <<"m", "a", "n", "a", "g", "e", "_", "i", "n", "v", "e", "n", "t", "o", "r", "y">>,
      greet_nearby |-> <<"g", "r", "e", "e", "t", "_", "n", "e", "a", "r", "b", "y">> ]

\* the words of the task patterns of execute_task
Keywords ==
    [ patrol |-> <<"p", "a", "t", "r", "o", "l">>,
      follow |-> <<"f", "o", "l", "l", "o", "w">>,
      approach |-> <<"a", "p", "p", "r", "o", "a", "c", "h">>,
      chase |-> <<"c", "h", "a", "s", "e">>,
      player |-> <<"p", "l", "a", "y", "e", "r">>,
      guard |-> <<"g", "u", "a", "r", "d">>,
      protect |-> <<"p", "r", "o", "t", "e", "c", "t">>,
      watch |-> <<"w", "a", "t", "c", "h">>,
      stand |-> <<"s", "t", "a", "n", "d">>,
      wander |-> <<"w", "a", "n", "d", "e", "r">>,
      explore |-> <<"e", "x", "p", "l", "o", "r", "e">>,
      roam |-> <<"r", "o", "a", "m">>,
      walk |-> <<"w", "a", "l", "k">>,
      farm |-> <<"f", "a", "r", "m">>,
      crops |-> <<"c", "r", "o", "p", "s">>,
      tend |-> <<"t", "e", "n", "d">>,
      harvest |-> <<"h", "a", "r", "v", "e", "s", "t">>,
      rest |-> <<"r", "e", "s", "t">>,
      sleep |-> <<"s", "l", "e", "e", "p">>,
      home |-> <<"h", "o", "m", "e">>,
      talk |-> <<"t", "a", "l", "k">>,
      chat |-> <<"c", "h", "a", "t">>,
      gossip |-> <<"g", "o", "s", "s", "i", "p">>,
      inspect |-> <<"i", "n", "s", "p", "e", "c", "t">>,
      investigate |-> <<"i", "n", "v", "e", "s", "t", "i", "g", "a", "t", "e">>,
      sell |-> <<"s", "e", "l", "l">>,
      trade |-> <<"t", "r", "a", "d", "e">>,
      market |-> <<"m", "a", "r", "k", "e", "t">>,
      restock |-> <<"r", "e", "s", "t", "o", "c", "k">>,
      inventory |-> <<"i", "n", "v", "e", "n", "t", "o", "r", "y">>,
      goods |-> <<"g", "o", "o", "d", "s">>,
      arrange |-> <<"a", "r", "r", "a", "n", "g", "e">>,
      greet |-> <<"g", "r", "e", "e", "t">>,
      wave |-> <<"w", "a", "v", "e">>,
      welcome |-> <<"w", "e", "l", "c", "o", "m", "e">>,
      idle |-> <<"i", "d", "l", "e">>,
      wait |-> <<"w", "a", "i", "t">> ]

\* the npc_type values of NPC.__init__
NpcTypes == {"villager", "guard", "merchant"}

\* task_lower that keeps the description
task_lower_KeepsDescription(task) == Lower(task)

\* task_lower of execute_task: the lowered task, cut before the first colon
\* and stripped when it has one
task_lower(task) ==
    LET lowered == Lower(task)
    IN  IF HasChar(lowered, ":") THEN Strip(BeforeColon(lowered)) ELSE lowered

\* FunctionStyle with the test for greet_nearby first
FunctionStyle_GreetFirst(t) ==
    IF Contains(t, FunctionNames.greet_nearby) THEN "greet_nearby"
    ELSE IF Contains(t, FunctionNames.follow_player) THEN "follow_player"
    ELSE IF Contains(t, FunctionNames.guard_position) THEN "guard_position"
    ELSE IF Contains(t, FunctionNames.tend_crops) THEN "tend_crops"
    ELSE IF Contains(t, FunctionNames.rest_at_home) THEN "rest_at_home"
    ELSE IF Contains(t, FunctionNames.talk_to_others) THEN "talk_to_others"
    ELSE IF Contains(t, FunctionNames.inspect_surroundings) THEN "inspect_surroundings"
    ELSE IF Contains(t, FunctionNames.sell_wares) THEN "sell_wares"
    ELSE IF Contains(t, FunctionNames.manage_inventory) THEN "manage_inventory"
    ELSE ""

\* the first chain of execute_task: the function-style names; "" when none
\* of them is in the task
FunctionStyle(t) ==
    IF Contains(t, FunctionNames.follow_player) THEN "follow_player"
    ELSE IF Contains(t, FunctionNames.guard_position) THEN "guard_position"
    ELSE IF Contains(t, FunctionNames.tend_crops) THEN "tend_crops"
    ELSE IF Contains(t, FunctionNames.rest_at_home) THEN "rest_at_home"
    ELSE IF Contains(t, FunctionNames.talk_to_others) THEN "talk_to_others"
    ELSE IF Contains(t, FunctionNames.inspect_surroundings) THEN "inspect_surroundings"
    ELSE IF Contains(t, FunctionNames.sell_wares) THEN "sell_wares"
    ELSE IF Contains(t, FunctionNames.manage_inventory) THEN "manage_inventory"
    ELSE IF Contains(t, FunctionNames.greet_nearby) THEN "greet_nearby"
    ELSE ""

\* Pattern without the tests of npc_type
Pattern_Ungated(t, type) ==
    IF Contains(t, Keywords.patrol) THEN "patrol"
    ELSE IF AnyIn(t, {Keywords.follow, Keywords.approach, Keywords.chase}) /\ Contains(t, Keywords.player)
    THEN "follow_player"
    ELSE IF AnyIn(t, {Keywords.guard, Keywords.protect, Keywords.watch, Keywords.stand}) THEN "guard_position"
    ELSE IF AnyIn(t, {Keywords.wander, Keywords.explore, Keywords.roam, Keywords.walk}) THEN "wander"
    ELSE IF AnyIn(t, {Keywords.farm, Keywords.crops, Keywords.tend, Keywords.harvest})
    THEN "tend_crops"
    ELSE IF AnyIn(t, {Keywords.rest, Keywords.sleep, Keywords.home})
    THEN "rest_at_home"
    ELSE IF AnyIn(t, {Keywords.talk, Keywords.chat, Keywords.gossip})
    THEN "talk_to_others"
    ELSE IF AnyIn(t, {Keywords.inspect, Keywords.investigate})
    THEN "inspect_surroundings"
    ELSE IF AnyIn(t, {Keywords.sell, Keywords.trade, Keywords.market})
    THEN "sell_wares"
    ELSE IF AnyIn(t, {Keywords.restock, Keywords.inventory, Keywords.goods, Keywords.arrange})
    THEN "manage_inventory"
    ELSE IF AnyIn(t, {Keywords.greet, Keywords.wave, Keywords.welcome}) THEN "greet_nearby"
    ELSE IF Contains(t, Keywords.idle) \/ Contains(t, Keywords.wait) THEN "idle"
    ELSE "wander"

\* Pattern without the default behaviour
Pattern_NoDefault(t, type) ==
    IF Contains(t, Keywords.patrol) THEN "patrol"
    ELSE IF AnyIn(t, {Keywords.follow, Keywords.approach, Keywords.chase}) /\ Contains(t, Keywords.player)
    THEN "follow_player"
    ELSE IF AnyIn(t, {Keywords.guard, Keywords.protect, Keywords.watch, Keywords.stand}) THEN "guard_position"
    ELSE IF AnyIn(t, {Keywords.wander, Keywords.explore, Keywords.roam, Keywords.walk}) THEN "wander"
    ELSE IF type = "villager" /\ AnyIn(t, {Keywords.farm, Keywords.crops, Keywords.tend, Keywords.harvest})
    THEN "tend_crops"
    ELSE IF type = "villager" /\ AnyIn(t, {Keywords.rest, Keywords.sleep, Keywords.home})
    THEN "rest_at_home"
    ELSE IF type = "villager" /\ AnyIn(t, {Keywords.talk, Keywords.chat, Keywords.gossip})
    THEN "talk_to_others"
    ELSE IF type = "guard" /\ AnyIn(t, {Keywords.inspect, Keywords.investigate})
    THEN "inspect_surroundings"
    ELSE IF type = "merchant" /\ AnyIn(t, {Keywords.sell, Keywords.trade, Keywords.market})
    THEN "sell_wares"
    ELSE IF type = "merchant"
            /\ AnyIn(t, {Keywords.restock, Keywords.inventory, Keywords.goods, Keywords.arrange})
    THEN "manage_inventory"
    ELSE IF AnyIn(t, {Keywords.greet, Keywords.wave, Keywords.welcome}) THEN "greet_nearby"
    ELSE IF Contains(t, Keywords.idle) \/ Contains(t, Keywords.wait) THEN "idle"
    ELSE ""

\* the second chain of execute_task: the task patterns
Pattern(t, type) ==
    IF Contains(t, Keywords.patrol) THEN "patrol"
    ELSE IF AnyIn(t, {Keywords.follow, Keywords.approach, Keywords.chase}) /\ Contains(t, Keywords.player)
    THEN "follow_player"
    ELSE IF AnyIn(t, {Keywords.guard, Keywords.protect, Keywords.watch, Keywords.stand}) THEN "guard_position"
    ELSE IF AnyIn(t, {Keywords.wander, Keywords.explore, Keywords.roam, Keywords.walk}) THEN "wander"
    ELSE IF type = "villager" /\ AnyIn(t, {Keywords.farm, Keywords.crops, Keywords.tend, Keywords.harvest})
    THEN "tend_crops"
    ELSE IF type = "villager" /\ AnyIn(t, {Keywords.rest, Keywords.sleep, Keywords.home})
    THEN "rest_at_home"
    ELSE IF type = "villager" /\ AnyIn(t, {Keywords.talk, Keywords.chat, Keywords.gossip})
    THEN "talk_to_others"
    ELSE IF type = "guard" /\ AnyIn(t, {Keywords.inspect, Keywords.investigate})
    THEN "inspect_surroundings"
    ELSE IF type = "merchant" /\ AnyIn(t, {Keywords.sell, Keywords.trade, Keywords.market})
    THEN "sell_wares"
    ELSE IF type = "merchant"
            /\ AnyIn(t, {Keywords.restock, Keywords.inventory, Keywords.goods, Keywords.arrange})
    THEN "manage_inventory"
    ELSE IF AnyIn(t, {Keywords.greet, Keywords.wave, Keywords.welcome}) THEN "greet_nearby"
    ELSE IF Contains(t, Keywords.idle) \/ Contains(t, Keywords.wait) THEN "idle"
    ELSE "wander"

\* execute_task(player, world) of an NPC of the given npc_type whose
\* current_task is task: the behaviour method it calls; t is the local
\* variable task_lower, computed once
execute_task(task, type) ==
    CHOOSE behaviour \in
        { IF FunctionStyle(t) # "" THEN FunctionStyle(t) ELSE Pattern(t, type) :
            t \in {task_lower(task)} } : TRUE


\* the record of a call of execute_task
Executed(type, task) ==
    [npc_type |-> type, current_task |-> task,
     behaviour |-> execute_task(task, type)]

\* no call of execute_task yet
NotExecuted == [npc_type |-> "", current_task |-> <<>>, behaviour |-> ""]

(***************************************************************************)
(* NPC.has_reached_target.  Coordinates are whole numbers, as the          *)
(* random.randint targets of the behaviours are; for whole dx, dy and      *)
(* speed, (dx**2 + dy**2)**0.5 < speed exactly when                        *)
(* dx**2 + dy**2 < speed**2.                                               *)
(***************************************************************************)
NPC_SPEED == 3

\* a coordinate of the target: <<>> is None, <<v>> is the number v
NoCoord == <<>>
Coord(v) == <<v>>

\* x, y, target_x, target_y after NPC.__init__(npc_id, npc_type, x, y)
NewBody(x, y) == [x |-> x, y |-> y, target_x |-> NoCoord, target_y |-> NoCoord]

\* has_reached_target has not been called
NotCalled == [called |-> FALSE, body |-> NewBody(0, 0), result |-> FALSE]

\* dx**2 + dy**2 of has_reached_target
DistanceSquared(b) ==
    LET dx == b.target_x[1] - b.x
        dy == b.target_y[1] - b.y
    IN  dx * dx + dy * dy

\* has_reached_target with <= in place of <
has_reached_target_OrEqual(b) ==
    IF b.target_x = NoCoord \/ b.target_y = NoCoord THEN TRUE
    ELSE DistanceSquared(b) <= NPC_SPEED * NPC_SPEED

\* has_reached_target() of an NPC whose fields are b
has_reached_target(b) ==
    IF b.target_x = NoCoord \/ b.target_y = NoCoord THEN TRUE
    ELSE DistanceSquared(b) < NPC_SPEED * NPC_SPEED

(***************************************************************************)
(* The behaviour methods that walk to a target.  A method is the set of    *)
(* the fields the NPC can have when it returns, one for each outcome of    *)
(* the random draws that are followed.                                     *)
(***************************************************************************)
WORLD_WIDTH == 2000
WORLD_HEIGHT == 2000
NPC_SIZE == 32

\* the part of the world that is followed: the line y = Origin, from
\* x = Origin to x = Origin + MaxLine
Origin == 100
MaxLine == 4
\* how far from the ends of that part the NPC is followed
MaxWalk == 3

\* the outcomes of random.randint that are followed: coordinates on the
\* line, and offsets that stay on it
Followed ==
    [x |-> Origin..(Origin + MaxLine), y |-> {Origin}, dx |-> -1..1, dy |-> {0}]

\* the outcomes of random.randint(lo, hi) among those followed
RandInt(lo, hi, followed) == {v \in followed : lo <= v /\ v <= hi}

\* no GameWorld yet
NoWorld ==
    [width |-> 0, height |-> 0, objects |-> {},
     npcs |-> [self |-> FALSE, others |-> {}]]

\* world.npcs as seen by the NPC whose fields are b: itself when it is in
\* the list, and the others
world_npcs(b, w) ==
    (IF w.npcs.self THEN {[x |-> b.x, y |-> b.y]} ELSE {}) \cup w.npcs.others

\* self.target_x = target_x; self.target_y = target_y
WithTarget(b, target_x, target_y) ==
    [b EXCEPT !.target_x = Coord(target_x), !.target_y = Coord(target_y)]

\* move_toward_target(): a step of length speed along (dx, dy); the step
\* is defined here when its coordinates are whole numbers, which they are
\* along a line of the grid
move_toward_target(b) ==
    IF b.target_x = NoCoord \/ b.target_y = NoCoord THEN b
    ELSE LET dx == b.target_x[1] - b.x
             dy == b.target_y[1] - b.y
         IN  IF dx = 0 /\ dy = 0 THEN b
             ELSE LET step ==
                          CHOOSE s \in (-NPC_SPEED..NPC_SPEED) \X (-NPC_SPEED..NPC_SPEED) :
                              /\ s[1] * s[1] + s[2] * s[2] = NPC_SPEED * NPC_SPEED
                              /\ s[1] * dy = s[2] * dx
                              /\ s[1] * dx + s[2] * dy > 0
                  IN  [b EXCEPT !.x = @ + step[1], !.y = @ + step[2]]

\* patrol(world)
patrol(b, w) ==
    IF b.target_x = NoCoord \/ b.target_y = NoCoord \/ has_reached_target(b)
    THEN {move_toward_target(WithTarget(b, target_x, target_y)) :
              target_x \in RandInt(0, w.width - NPC_SIZE, Followed.x),
              target_y \in RandInt(0, w.height - NPC_SIZE, Followed.y)}
    ELSE {move_toward_target(b)}

\* wander(world): random.random() < 0.02 takes a new target at any call
wander(b, w) ==
    {move_toward_target(WithTarget(b, target_x, target_y)) :
         target_x \in RandInt(0, w.width - NPC_SIZE, Followed.x),
         target_y \in RandInt(0, w.height - NPC_SIZE, Followed.y)}
    \cup (IF b.target_x = NoCoord \/ has_reached_target(b)
          THEN {} ELSE {move_toward_target(b)})

\* tend_crops(world)
tend_crops(b, w) ==
    LET trees == {obj \in w.objects : obj.obj_type = "tree"}
    IN  IF trees # {} /\ (b.target_x = NoCoord \/ has_reached_target(b))
        THEN {move_toward_target(WithTarget(b, target_tree.x + offset_x,
                                            target_tree.y + offset_y)) :
                  target_tree \in trees,
                  offset_x \in RandInt(-20, 20, Followed.dx),
                  offset_y \in RandInt(-20, 20, Followed.dy)}
        ELSE {move_toward_target(b)}

\* rest_at_home(world)
rest_at_home(b, w) ==
    LET houses == {obj \in w.objects : obj.obj_type = "house"}
    IN  IF houses # {} /\ (b.target_x = NoCoord \/ has_reached_target(b))
        THEN {move_toward_target(
                  WithTarget(b, target_house.x + target_house.width \div 2,
                             target_house.y + target_house.height \div 2)) :
                  target_house \in houses}
        ELSE {move_toward_target(b)}

\* talk_to_others(world)
talk_to_others(b, w) ==
    LET other_npcs == w.npcs.others
    IN  IF other_npcs # {} /\ (b.target_x = NoCoord \/ has_reached_target(b))
        THEN {move_toward_target(WithTarget(b, target_npc.x, target_npc.y)) :
                  target_npc \in other_npcs}
        ELSE {move_toward_target(b)}

\* inspect_surroundings(world)
inspect_surroundings(b, w) ==
    LET points_of_interest ==
            {[x |-> obj.x, y |-> obj.y] : obj \in w.objects} \cup world_npcs(b, w)
    IN  IF points_of_interest # {} /\ (b.target_x = NoCoord \/ has_reached_target(b))
        THEN {move_toward_target(WithTarget(b, target.x + offset_x,
                                            target.y + offset_y)) :
                  target \in points_of_interest,
                  offset_x \in RandInt(-30, 30, Followed.dx),
                  offset_y \in RandInt(-30, 30, Followed.dy)}
        ELSE {move_toward_target(b)}

\* sell_wares(world)
sell_wares(b, w) ==
    LET sell_spots ==
            {[x |-> obj.x, y |-> obj.y] :
                 obj \in {o \in w.objects : o.obj_type = "house"}}
            \cup world_npcs(b, w)
    IN  IF sell_spots # {} /\ (b.target_x = NoCoord \/ has_reached_target(b))
        THEN {move_toward_target(WithTarget(b, target_spot.x + offset_x,
                                            target_spot.y + offset_y)) :
                  target_spot \in sell_spots,
                  offset_x \in RandInt(-50, 50, Followed.dx),
                  offset_y \in RandInt(-50, 50, Followed.dy)}
        ELSE {move_toward_target(b)}

\* manage_inventory that moves whether or not the target is reached
manage_inventory_AlwaysMoves(b, w) ==
    {move_toward_target(spot) :
        spot \in IF b.target_x = NoCoord
                 THEN {WithTarget(b, target_x, target_y) :
                          target_x \in RandInt(100, w.width - 100, Followed.x),
                          target_y \in RandInt(100, w.height - 100, Followed.y)}
                 ELSE {b}}

\* manage_inventory(world)
manage_inventory(b, w) ==
    {IF has_reached_target(spot) THEN spot ELSE move_toward_target(spot) :
        spot \in IF b.target_x = NoCoord
                 THEN {WithTarget(b, target_x, target_y) :
                          target_x \in RandInt(100, w.width - 100, Followed.x),
                          target_y \in RandInt(100, w.height - 100, Followed.y)}
                 ELSE {b}}

\* the fields of the NPC after the method execute_task calls; idle()
\* leaves them
Behave(behaviour, b, w) ==
    CASE behaviour = "patrol" -> patrol(b, w)
      [] behaviour = "wander" -> wander(b, w)
      [] behaviour = "idle" -> {b}
      [] behaviour = "tend_crops" -> tend_crops(b, w)
      [] behaviour = "rest_at_home" -> rest_at_home(b, w)
      [] behaviour = "talk_to_others" -> talk_to_others(b, w)
      [] behaviour = "inspect_surroundings" -> inspect_surroundings(b, w)
      [] behaviour = "sell_wares" -> sell_wares(b, w)
      [] behaviour = "manage_inventory" -> manage_inventory(b, w)

\* the query dict of queue_task_update; last_completed_task and
\* current_state never change after NPC.__init__, and environment_context
\* reaches only the prompt of the backend
Query(n, player_interaction) ==
    [npc_id |-> n, npc_type |-> npc_type(n), current_task |-> current_task[n],
     last_completed_task |-> None, current_state |-> TaskNames.idle,
     player_interaction |-> player_interaction]

\* UpdateDue without the test of waiting_for_task
UpdateDue_NoGate(n, current_time) ==
    current_time - last_llm_update[n] >= NPC_UPDATE_INTERVAL

\* UpdateDue with > in place of >=
UpdateDue_Strict(n, current_time) ==
    /\ ~waiting_for_task[n]
    /\ current_time - last_llm_update[n] > NPC_UPDATE_INTERVAL

\* UpdateDue that does not wait for the interval
UpdateDue_Early(n, current_time) ==
    /\ ~waiting_for_task[n]
    /\ current_time - last_llm_update[n] >= 0

\* the elif condition of NPC.update
UpdateDue(n, current_time) ==
    /\ ~waiting_for_task[n]
    /\ current_time - last_llm_update[n] >= NPC_UPDATE_INTERVAL

\* queue_task_update(player, world)
queue_task_update(n, player_interaction) ==
    /\ queue_npc_task_request(llm_controller(n), n, Query(n, player_interaction),
                              "task_update_callback")
    /\ waiting_for_task' = [waiting_for_task EXCEPT ![n] = TRUE]

\* ConsumeResponse without the assignment to last_llm_update
ConsumeResponse_KeepsTimestamp(n, cached_response, current_time) ==
    /\ current_task' = [current_task EXCEPT ![n] = cached_response.new_task]
    /\ response_cache' = [response_cache EXCEPT
                              ![llm_controller(n)] = clear_cache(llm_controller(n), n)]
    /\ waiting_for_task' = [waiting_for_task EXCEPT ![n] = FALSE]
    /\ UNCHANGED last_llm_update

\* the if branch of NPC.update: adopt the cached response
ConsumeResponse(n, cached_response, current_time) ==
    /\ current_task' = [current_task EXCEPT ![n] = cached_response.new_task]
    /\ response_cache' = [response_cache EXCEPT
                              ![llm_controller(n)] = clear_cache(llm_controller(n), n)]
    /\ waiting_for_task' = [waiting_for_task EXCEPT ![n] = FALSE]
    /\ last_llm_update' = [last_llm_update EXCEPT ![n] = current_time]

\* the result of get_npc_task(query), the call that blocks until the mock or
\* the backend has answered: a backend exception is answered by the mock
get_npc_task(c, query) ==
    IF use_mock[c] THEN MockResponses(query)
    ELSE (BackendOutcomesFor(api_key) \ {Raised})
         \cup (IF Raised \in BackendOutcomesFor(api_key)
               THEN MockResponses(query) ELSE {})

\* NPC.update with update_task_from_llm, the synchronous call, in the place
\* of queue_task_update
update_Synchronous(n, current_time, player_interaction) ==
    LET cached_response == get_cached_response(llm_controller(n), n)
    IN  /\ joining = {}
        /\ now' = current_time
        /\ IF cached_response # None /\ waiting_for_task[n]
           THEN /\ ConsumeResponse(n, cached_response, current_time)
                /\ UNCHANGED <<use_mock, api_key, request_queue, is_processing,
                               processing_thread, threads, submitted>>
           ELSE IF UpdateDue(n, current_time)
           THEN /\ \E response \in get_npc_task(llm_controller(n),
                                                 Query(n, player_interaction)) :
                       current_task' = [current_task EXCEPT ![n] = response.new_task]
                /\ UNCHANGED <<waiting_for_task, last_llm_update, ctlVars,
                               submitted>>
           ELSE UNCHANGED <<npcVars, ctlVars, submitted>>
        /\ executed' = Executed(npc_type(n), current_task'[n])
        /\ UNCHANGED unitVars
        /\ UNCHANGED <<joining, dequeued, stored, called, failed, stopped_at>>

\* NPC.update that calls execute_task before it looks at the cache
update_ExecutesFirst(n, current_time, player_interaction) ==
    LET cached_response == get_cached_response(llm_controller(n), n)
    IN  /\ joining = {}
        /\ now' = current_time
        /\ IF cached_response # None /\ waiting_for_task[n]
           THEN /\ ConsumeResponse(n, cached_response, current_time)
                /\ UNCHANGED <<use_mock, api_key, request_queue, is_processing,
                               processing_thread, threads, submitted>>
           ELSE IF UpdateDue(n, current_time)
           THEN /\ queue_task_update(n, player_interaction)
                /\ UNCHANGED <<current_task, last_llm_update, use_mock, api_key,
                               response_cache>>
           ELSE UNCHANGED <<npcVars, ctlVars, submitted>>
        /\ executed' = Executed(npc_type(n), current_task[n])
        /\ UNCHANGED unitVars
        /\ UNCHANGED <<joining, dequeued, stored, called, failed, stopped_at>>

\* NPC.update(player, world) of NPC n, which reads the clock as current_time
\* and the player's distance as player_interaction, and ends with
\* execute_task
update(n, current_time, player_interaction) ==
    LET cached_response == get_cached_response(llm_controller(n), n)
    IN  /\ joining = {}
        /\ now' = current_time
        /\ IF cached_response # None /\ waiting_for_task[n]
           THEN /\ ConsumeResponse(n, cached_response, current_time)
                /\ UNCHANGED <<use_mock, api_key, request_queue, is_processing,
                               processing_thread, threads, submitted>>
           ELSE IF UpdateDue(n, current_time)
           THEN /\ queue_task_update(n, player_interaction)
                /\ UNCHANGED <<current_task, last_llm_update, use_mock, api_key,
                               response_cache>>
           ELSE UNCHANGED <<npcVars, ctlVars, submitted>>
        /\ executed' = Executed(npc_type(n), current_task'[n])
        /\ UNCHANGED unitVars
        /\ UNCHANGED <<joining, dequeued, stored, called, failed, stopped_at>>

\* one call of NPC.update in the frame loop
Tick(n) ==
    \E current_time \in {now, now + TimeStep} :
        \E player_interaction \in PlayerInteractions :
            /\ current_time <= MaxTime
            /\ update(n, current_time, player_interaction)

(***************************************************************************)
(* LLMController._process_queue, thread t of controller c, one action per  *)
(* step                                                                    *)
(***************************************************************************)
SetThread(c, t, th) == threads' = [threads EXCEPT ![c][t] = th]

\* while self.is_processing
W_While(c, t) ==
    LET th == threads[c][t]
    IN  /\ th.pc = "while"
        /\ SetThread(c, t, [th EXCEPT !.pc = IF is_processing[c] THEN "get"
                                              ELSE "exited"])
        /\ UNCHANGED <<now, executed, unitVars, npcVars, use_mock, api_key, request_queue, response_cache,
                       is_processing, processing_thread, joining, logVars>>

\* QueueGet taking the newest item instead of the oldest
QueueGet_Lifo(q) == [item |-> q[Len(q)], rest |-> SubSeq(q, 1, Len(q) - 1)]

\* queue.Queue.get on a queue that is not empty: the item it returns and the
\* items it leaves
QueueGet(q) == [item |-> Head(q), rest |-> Tail(q)]

\* W_Get without the timeout: the get waits until the queue has a request
W_Get_Blocking(c, t) ==
    LET th == threads[c][t]
        got == QueueGet(request_queue[c])
    IN  /\ th.pc = "get"
        /\ request_queue[c] # <<>>
        /\ request_queue' = [request_queue EXCEPT ![c] = got.rest]
        /\ SetThread(c, t, [th EXCEPT !.pc = "respond",
                                      !.item = got.item,
                                      !.response = None,
                                      !.cached = None,
                                      !.passed = None])
        /\ dequeued' = [dequeued EXCEPT ![c] = Append(@, got.item.seq)]
        /\ UNCHANGED <<now, executed, unitVars, npcVars, use_mock, api_key, response_cache, is_processing,
                       processing_thread, joining, submitted, stored, called,
                       failed, stopped_at>>

\* self.request_queue.get(timeout=0.5): the oldest request, or queue.Empty
W_Get(c, t) ==
    LET th == threads[c][t]
        got == QueueGet(request_queue[c])
    IN  /\ th.pc = "get"
        /\ IF request_queue[c] # <<>>
           THEN /\ request_queue' = [request_queue EXCEPT ![c] = got.rest]
                /\ SetThread(c, t, [th EXCEPT !.pc = "respond",
                                              !.item = got.item,
                                              !.response = None,
                                              !.cached = None,
                                              !.passed = None])
                /\ dequeued' = [dequeued EXCEPT ![c] = Append(@, got.item.seq)]
           ELSE /\ SetThread(c, t, [th EXCEPT !.pc = "while"])
                /\ UNCHANGED <<request_queue, dequeued>>
        /\ UNCHANGED <<now, executed, unitVars, npcVars, use_mock, api_key, response_cache, is_processing,
                       processing_thread, joining, submitted, stored, called,
                       failed, stopped_at>>

\* what the call of _get_mock_response or _get_openai_response can yield
RespondOutcomes(c, query) ==
    IF use_mock[c] THEN MockResponses(query) ELSE BackendOutcomesFor(api_key)

\* OnException without the except clause: the exception ends the thread
OnException_Dies == "exited"

\* where an exception of the try block continues: except Exception
OnException == "fallback"

\* response = self._get_mock_response(query) or self._get_openai_response(query)
W_Respond(c, t) ==
    LET th == threads[c][t]
    IN  /\ th.pc = "respond"
        /\ \E r \in RespondOutcomes(c, th.item.query) :
              IF r = Raised
              THEN /\ SetThread(c, t, [th EXCEPT !.pc = OnException])
                   /\ failed' = [failed EXCEPT ![c] = @ \cup {th.item.seq}]
              ELSE /\ SetThread(c, t, [th EXCEPT !.pc = "cache", !.response = r])
                   /\ UNCHANGED failed
        /\ UNCHANGED <<now, executed, unitVars, npcVars, use_mock, api_key, request_queue, response_cache,
                       is_processing, processing_thread, joining, submitted,
                       dequeued, stored, called, stopped_at>>

\* CacheResponse without the write to response_cache
CacheResponse_Skip(c, t, next) ==
    LET th == threads[c][t]
    IN  /\ SetThread(c, t, [th EXCEPT !.pc = next])
        /\ stored' = [stored EXCEPT ![c] = Append(@, th.item.seq)]
        /\ UNCHANGED <<now, executed, unitVars, npcVars, use_mock, api_key, request_queue, response_cache,
                       is_processing, processing_thread, joining, submitted,
                       dequeued, called, failed, stopped_at>>

\* self.response_cache[npc_id] = response, in the try block (next) or in the
\* except block
CacheResponse(c, t, next) ==
    LET th == threads[c][t]
    IN  /\ response_cache' = [response_cache EXCEPT
                                 ![c] = DictSet(@, th.item.npc_id, th.response)]
        /\ SetThread(c, t, [th EXCEPT !.pc = next, !.cached = th.response])
        /\ stored' = [stored EXCEPT ![c] = Append(@, th.item.seq)]
        /\ UNCHANGED <<now, executed, unitVars, npcVars, use_mock, api_key, request_queue, is_processing,
                       processing_thread, joining, submitted, dequeued, called,
                       failed, stopped_at>>

\* InvokeCallback that drops the callback once is_processing is false
InvokeCallback_UnlessStopped(c, t, raised) ==
    LET th == threads[c][t]
    IN  /\ IF th.item.callback = "None" \/ ~is_processing[c]
           THEN /\ SetThread(c, t, [th EXCEPT !.pc = "task_done"])
                /\ UNCHANGED called
           ELSE /\ SetThread(c, t, [th EXCEPT
                       !.pc = IF th.item.callback = "raises" THEN raised
                              ELSE "task_done",
                       !.passed = th.response])
                /\ called' = [called EXCEPT ![c] = Append(@, th.item.seq)]
        /\ UNCHANGED <<now, executed, unitVars, npcVars, use_mock, api_key, request_queue, response_cache,
                       is_processing, processing_thread, joining, submitted,
                       dequeued, stored, failed, stopped_at>>

\* if callback: callback(response); raised is where the exception of the
\* callback is caught
InvokeCallback(c, t, raised) ==
    LET th == threads[c][t]
    IN  /\ IF th.item.callback = "None"
           THEN /\ SetThread(c, t, [th EXCEPT !.pc = "task_done"])
                /\ UNCHANGED called
           ELSE /\ SetThread(c, t, [th EXCEPT
                       !.pc = IF th.item.callback = "raises" THEN raised
                              ELSE "task_done",
                       !.passed = th.response])
                /\ called' = [called EXCEPT ![c] = Append(@, th.item.seq)]
        /\ UNCHANGED <<now, executed, unitVars, npcVars, use_mock, api_key, request_queue, response_cache,
                       is_processing, processing_thread, joining, submitted,
                       dequeued, stored, failed, stopped_at>>

\* self.response_cache[npc_id] = response (try block)
W_Cache(c, t) ==
    /\ threads[c][t].pc = "cache"
    /\ CacheResponse(c, t, "callback")

\* callback(response) (try block); an exception goes to the except block
W_Callback(c, t) ==
    /\ threads[c][t].pc = "callback"
    /\ InvokeCallback(c, t, OnException)

\* except Exception: response = self._get_mock_response(query)
W_Fallback(c, t) ==
    LET th == threads[c][t]
    IN  /\ th.pc = "fallback"
        /\ \E r \in MockResponses(th.item.query) :
              SetThread(c, t, [th EXCEPT !.pc = "fallback_cache", !.response = r])
        /\ UNCHANGED <<now, executed, unitVars, npcVars, use_mock, api_key, request_queue, response_cache,
                       is_processing, processing_thread, joining, logVars>>

\* self.response_cache[npc_id] = response (except block)
W_FallbackCache(c, t) ==
    /\ threads[c][t].pc = "fallback_cache"
    /\ CacheResponse(c, t, "fallback_callback")

\* callback(response) (except block); an exception goes to the outer
\* except Exception, which prints it and continues the loop
W_FallbackCallback(c, t) ==
    /\ threads[c][t].pc = "fallback_callback"
    /\ InvokeCallback(c, t, "while")

\* self.request_queue.task_done(); time.sleep(0.1)
W_TaskDone(c, t) ==
    LET th == threads[c][t]
    IN  /\ th.pc = "task_done"
        /\ SetThread(c, t, [th EXCEPT !.pc = "while"])
        /\ UNCHANGED <<now, executed, unitVars, npcVars, use_mock, api_key, request_queue, response_cache,
                       is_processing, processing_thread, joining, logVars>>

\* a step of thread t of controller c
_process_queue(c, t) ==
    \/ W_While(c, t)
    \/ W_Get(c, t)
    \/ W_Respond(c, t)
    \/ W_Cache(c, t)
    \/ W_Callback(c, t)
    \/ W_Fallback(c, t)
    \/ W_FallbackCache(c, t)
    \/ W_FallbackCallback(c, t)
    \/ W_TaskDone(c, t)

\* a step of a worker thread of controller c
Worker(c) == \E t \in 1..Len(threads[c]) : _process_queue(c, t)

(***************************************************************************)
(* The simulation: NPC.__init__ for every NPC, then the frame loop beside  *)
(* the worker threads                                                      *)
(***************************************************************************)
Init ==
    /\ now = 0
    /\ current_task = [n \in NPCS |-> TaskNames.idle]
    /\ waiting_for_task = [n \in NPCS |-> FALSE]
    /\ last_llm_update = [n \in NPCS |-> 0]
    /\ \E key \in ApiKeys : \E openai_installed \in BOOLEAN :
          /\ api_key = key
          /\ use_mock = [c \in Controllers |-> key = Keys.none \/ ~openai_installed]
    /\ request_queue = [c \in Controllers |-> <<>>]
    /\ response_cache = [c \in Controllers |-> EmptyDict]
    /\ is_processing = [c \in Controllers |-> TRUE]
    /\ processing_thread = [c \in Controllers |-> 1]
    /\ threads = [c \in Controllers |-> <<NewThread>>]
    /\ joining = {}
    /\ submitted = [c \in Controllers |-> <<>>]
    /\ dequeued = [c \in Controllers |-> <<>>]
    /\ stored = [c \in Controllers |-> <<>>]
    /\ called = [c \in Controllers |-> <<>>]
    /\ failed = [c \in Controllers |-> {}]
    /\ stopped_at = [c \in Controllers |-> 0]
    /\ executed = NotExecuted
    /\ body = NewBody(0, 0)
    /\ reached = NotCalled
    /\ parsed = NotParsed
    /\ world = NoWorld

Next ==
    \/ \E n \in NPCS : Tick(n)
    \/ \E c \in Controllers : \E t \in 1..Len(threads[c]) : W_While(c, t)
    \/ \E c \in Controllers : \E t \in 1..Len(threads[c]) : W_Get(c, t)
    \/ \E c \in Controllers : \E t \in 1..Len(threads[c]) : W_Respond(c, t)
    \/ \E c \in Controllers : \E t \in 1..Len(threads[c]) : W_Cache(c, t)
    \/ \E c \in Controllers : \E t \in 1..Len(threads[c]) : W_Callback(c, t)
    \/ \E c \in Controllers : \E t \in 1..Len(threads[c]) : W_Fallback(c, t)
    \/ \E c \in Controllers : \E t \in 1..Len(threads[c]) : W_FallbackCache(c, t)
    \/ \E c \in Controllers : \E t \in 1..Len(threads[c]) : W_FallbackCallback(c, t)
    \/ \E c \in Controllers : \E t \in 1..Len(threads[c]) : W_TaskDone(c, t)

Spec == Init /\ [][Next]_vars

(***************************************************************************)
(* One dispatcher used through its interface: a client on the foreground   *)
(* thread calls queue_npc_task_request, stop_queue_processing,             *)
(* start_queue_processing and clear_cache of one LLMController, for        *)
(* several agent ids.                                                      *)
(***************************************************************************)
Dispatcher == "guard_0"

\* the npc_id arguments of the client
AgentIds == {"A", "B", "C"}

\* the callback argument of the client for agent id: a function that
\* returns, a function that raises, or None
ClientCallback(id) ==
    IF id = "A" THEN "returns" ELSE IF id = "B" THEN "raises" ELSE "None"

\* the query argument of the client for agent id
ClientQuery(id) ==
    [npc_id |-> id, npc_type |-> "merchant", current_task |-> TaskNames.idle,
     last_completed_task |-> None, current_state |-> TaskNames.idle,
     player_interaction |-> "none"]

\* a call of queue_npc_task_request
Submit(c, id, callback) ==
    /\ joining = {}
    /\ queue_npc_task_request(c, id, ClientQuery(id), callback)
    /\ UNCHANGED <<now, executed, unitVars, npcVars, use_mock, api_key, response_cache, joining, dequeued,
                   stored, called, failed, stopped_at>>

\* a call of stop_queue_processing, up to the join
Stop(c) ==
    /\ joining = {}
    /\ is_processing' = [is_processing EXCEPT ![c] = FALSE]
    /\ joining' = IF processing_thread[c] # 0
                     /\ is_alive(threads[c][processing_thread[c]])
                  THEN {c} ELSE {}
    /\ stopped_at' = [stopped_at EXCEPT ![c] = Len(submitted[c])]
    /\ UNCHANGED <<now, executed, unitVars, npcVars, use_mock, api_key, request_queue, response_cache,
                   processing_thread, threads, submitted, dequeued, stored,
                   called, failed>>

\* A thread can stay at a step for longer than JOIN_TIMEOUT only inside the
\* backend call: queue.get waits 0.5 s, the mock call 0.05 s, the sleep 0.1 s.
CanOutlastJoin(c, th) ==
    th.pc = "respond" /\ ~use_mock[c] /\ LLM_API_TIMEOUT > JOIN_TIMEOUT

\* processing_thread.join(timeout=1.0) returns: the thread has ended, or the
\* timeout has expired
JoinReturns(c) ==
    /\ c \in joining
    /\ \/ ~is_alive(threads[c][processing_thread[c]])
       \/ CanOutlastJoin(c, threads[c][processing_thread[c]])
    /\ joining' = {}
    /\ UNCHANGED <<now, executed, unitVars, npcVars, ctlVars, logVars>>

\* a call of start_queue_processing
Start(c) ==
    /\ joining = {}
    /\ start_queue_processing(c)
    /\ UNCHANGED <<now, executed, unitVars, npcVars, use_mock, api_key, request_queue, response_cache,
                   joining, logVars>>

\* a call of clear_cache(npc_id), or of clear_cache() when npc_id is ""
ClearCache(c, npc_id) ==
    /\ joining = {}
    /\ response_cache' = [response_cache EXCEPT ![c] = clear_cache(c, npc_id)]
    /\ UNCHANGED <<now, executed, unitVars, npcVars, use_mock, api_key, request_queue, is_processing,
                   processing_thread, threads, joining, logVars>>

DispatcherThreads == 1..Len(threads[Dispatcher])

NextD ==
    \/ \E id \in AgentIds : Submit(Dispatcher, id, ClientCallback(id))
    \/ Stop(Dispatcher)
    \/ JoinReturns(Dispatcher)
    \/ Start(Dispatcher)
    \/ \E t \in DispatcherThreads : W_While(Dispatcher, t)
    \/ \E t \in DispatcherThreads : W_Get(Dispatcher, t)
    \/ \E t \in DispatcherThreads : W_Respond(Dispatcher, t)
    \/ \E t \in DispatcherThreads : W_Cache(Dispatcher, t)
    \/ \E t \in DispatcherThreads : W_Callback(Dispatcher, t)
    \/ \E t \in DispatcherThreads : W_Fallback(Dispatcher, t)
    \/ \E t \in DispatcherThreads : W_FallbackCache(Dispatcher, t)
    \/ \E t \in DispatcherThreads : W_FallbackCallback(Dispatcher, t)
    \/ \E t \in DispatcherThreads : W_TaskDone(Dispatcher, t)

SpecD == Init /\ [][NextD]_vars

(***************************************************************************)
(* Properties                                                              *)
(***************************************************************************)
Range(f) == {f[i] : i \in DOMAIN f}

\* the positions of _process_queue at which the result of the request has
\* not been written to the cache yet
PreStore == {"respond", "cache", "fallback", "fallback_cache"}

\* the requests of agent n waiting in the queue of controller c
QueuedFor(c, n) == {i \in 1..Len(request_queue[c]) : request_queue[c][i].npc_id = n}

\* the threads of controller c that process a request of agent n
ProcessingFor(c, n) ==
    {t \in 1..Len(threads[c]) :
        threads[c][t].pc \in PreStore /\ threads[c][t].item.npc_id = n}

\* the number of requests of agent n that are queued, being processed, or
\* cached and not consumed
Outstanding(n) ==
    LET perController(c) ==
            Cardinality(QueuedFor(c, n)) + Cardinality(ProcessingFor(c, n))
            + (IF n \in DOMAIN response_cache[c] THEN 1 ELSE 0)
        RECURSIVE Sum(_)
        Sum(S) == IF S = {} THEN 0
                  ELSE LET c == CHOOSE x \in S : TRUE
                       IN  perController(c) + Sum(S \ {c})
    IN  Sum(Controllers)

\* C1: in every interleaving of ticks and worker steps, an agent has at most
\* one request that is queued, being processed, or cached and not consumed,
\* and it has one only while its waiting_for_task is true.
C1_SingleOutstanding ==
    \A n \in NPCS :
        /\ Outstanding(n) <= 1
        /\ Outstanding(n) = 1 => waiting_for_task[n]

\* C1 witness: an agent waits for its second request, which is its only
\* outstanding one.
C1_Witness ==
    \E n \in NPCS :
        /\ waiting_for_task[n]
        /\ Len(submitted[llm_controller(n)]) = 2
        /\ Outstanding(n) = 1

\* the threads of the whole simulation that are inside a backend or mock call
InCall ==
    {ct \in Controllers \X (1..MaxThreads) :
        /\ ct[2] <= Len(threads[ct[1]])
        /\ threads[ct[1]][ct[2]].pc \in {"respond", "fallback"}}

\* C2: in the whole simulation at most one directive request is being
\* processed (one backend or mock call is running) at any moment.
C2_OneCallInFlight == Cardinality(InCall) <= 1

\* the threads of the dispatcher that hold a request
HandlingThreads ==
    {t \in DispatcherThreads : Handling(threads[Dispatcher][t])}

NonDecreasing(log) == \A i, j \in 1..Len(log) : i <= j => log[i] <= log[j]

\* C3: one dispatcher takes the requests off the queue in the order of the
\* calls of queue_npc_task_request, caches their results and invokes their
\* callbacks in that order, every request finished before the next is
\* taken, and never handles two requests at the same time.
C3_Fifo ==
    LET d == dequeued[Dispatcher]
    IN  /\ \A i \in 1..Len(d) : d[i] = i
        /\ Len(d) <= Len(submitted[Dispatcher])
        /\ NonDecreasing(stored[Dispatcher])
        /\ NonDecreasing(called[Dispatcher])
        /\ Range(stored[Dispatcher]) \cup Range(called[Dispatcher]) \subseteq Range(d)
        /\ \A i \in 1..(Len(d) - 1) :
              /\ i \in Range(stored[Dispatcher])
              /\ submitted[Dispatcher][i].callback # "None"
                    => i \in Range(called[Dispatcher])
        /\ Cardinality(HandlingThreads) <= 1

\* C3 witness: requests for two agents were submitted, taken in that order,
\* and the callbacks of both were invoked.
C3_Witness ==
    /\ Len(submitted[Dispatcher]) = 2
    /\ submitted[Dispatcher][1].npc_id # submitted[Dispatcher][2].npc_id
    /\ dequeued[Dispatcher] = <<1, 2>>
    /\ {1, 2} \subseteq Range(called[Dispatcher])

\* the threads of the dispatcher that hold request seq at one of the
\* positions pcs
HoldsAt(seq, pcs) ==
    \E t \in DispatcherThreads :
        /\ threads[Dispatcher][t].item.seq = seq
        /\ threads[Dispatcher][t].pc \in pcs

\* a request whose backend call raised is in the except block, or its
\* result is in the history of cache writes and its callback was invoked
FailureHandled(seq) ==
    \/ HoldsAt(seq, {"fallback", "fallback_cache"})
    \/ /\ seq \in Range(stored[Dispatcher])
       /\ submitted[Dispatcher][seq].callback # "None"
             => \/ seq \in Range(called[Dispatcher])
                \/ HoldsAt(seq, {"fallback_callback"})

\* what a thread wrote to the cache for a request whose backend call raised
\* is an answer of the mock generator, and no cache entry is an exception
FallbackIsMock ==
    /\ \A t \in DispatcherThreads :
          LET th == threads[Dispatcher][t]
          IN  th.item.seq \in failed[Dispatcher] /\ th.cached # None
                 => th.cached \in MockResponses(th.item.query)
    /\ \A id \in DOMAIN response_cache[Dispatcher] :
          response_cache[Dispatcher][id] # Raised

\* a thread ends only where the while condition finds is_processing false
EndsOnlyByFlag ==
    \A t \in DispatcherThreads :
        (threads[Dispatcher][t].pc # "exited"
            /\ threads'[Dispatcher][t].pc = "exited")
        => threads[Dispatcher][t].pc = "while" /\ ~is_processing[Dispatcher]

\* C4: when the backend call of a request raises, the worker answers it
\* with the mock generator, writes that result to the cache and invokes the
\* callback; no failure ends the thread, which leaves its loop only where
\* the while condition finds is_processing false, and no exception reaches
\* the cache.
C4_FailureContained ==
    /\ [](\A seq \in failed[Dispatcher] : FailureHandled(seq))
    /\ []FallbackIsMock
    /\ [][EndsOnlyByFlag]_vars

\* C4 witness: the backend call of the first request raised, its fallback
\* result was cached and its callback invoked, and the worker has taken the
\* second request.
C4_Witness ==
    /\ 1 \in failed[Dispatcher]
    /\ 1 \in Range(stored[Dispatcher])
    /\ 1 \in Range(called[Dispatcher])
    /\ dequeued[Dispatcher] = <<1, 2>>

\* a step of thread t of the dispatcher, if it has been created
ThreadStep(t) == t \in DispatcherThreads /\ _process_queue(Dispatcher, t)

\* SpecD with every worker thread scheduled fairly, every backend, mock and
\* callback call returning, and join returning when its thread has ended or
\* its timeout has expired
FairSpecD ==
    /\ SpecD
    /\ \A t \in 1..MaxThreads : WF_vars(ThreadStep(t))
    /\ WF_vars(JoinReturns(Dispatcher))

\* C5: under FairSpecD every request passed to queue_npc_task_request is
\* eventually taken off the queue and its result written to the cache,
\* unless stop_queue_processing is called after the request was submitted.
C5_EventuallyCached ==
    \A i \in 1..MaxRequests :
        (Len(submitted[Dispatcher]) >= i)
            ~> (i \in Range(stored[Dispatcher]) \/ stopped_at[Dispatcher] >= i)

\* C6: the task of every result in a cache and the current_task of every
\* agent is a non-empty string, and no cache entry is an exception.
C6_NonEmptyTask ==
    /\ \A c \in Controllers : \A id \in DOMAIN response_cache[c] :
          /\ response_cache[c][id] # Raised
          /\ response_cache[c][id].new_task # <<>>
    /\ \A n \in NPCS : current_task[n] # <<>>

\* the tick of agent n finds waiting_for_task true and a result in the cache
ConsumeCase(n) ==
    waiting_for_task[n] /\ get_cached_response(llm_controller(n), n) # None

\* the tick of agent n appends a request to the queue of its controller
Submits(n) ==
    Len(submitted'[llm_controller(n)]) = Len(submitted[llm_controller(n)]) + 1

ConsumptionStep(n) ==
    LET c == llm_controller(n)
        cached_response == get_cached_response(c, n)
    IN  Tick(n) =>
          /\ ConsumeCase(n) =>
                /\ current_task'[n] = cached_response.new_task
                /\ n \notin DOMAIN response_cache'[c]
                /\ ~waiting_for_task'[n]
                /\ last_llm_update'[n] = now'
          /\ waiting_for_task[n] /\ cached_response = None =>
                /\ waiting_for_task'[n]
                /\ current_task'[n] = current_task[n]
                /\ last_llm_update'[n] = last_llm_update[n]

\* C7: a tick of an agent whose waiting_for_task is true and whose result is
\* in the cache leaves current_task equal to the task of that result, the
\* cache entry of the agent absent, waiting_for_task false and
\* last_llm_update equal to the time of the tick; a tick of an agent whose
\* waiting_for_task is true and whose result is not in the cache leaves the
\* flag, the task and the timestamp unchanged.
C7_Consumption == [][\A n \in NPCS : ConsumptionStep(n)]_vars

\* C7 witness: an agent has adopted a result at the present time, its cache
\* entry is gone and it waits no longer.
C7_Witness ==
    \E n \in NPCS :
        /\ now > 0
        /\ last_llm_update[n] = now
        /\ ~waiting_for_task[n]
        /\ n \notin DOMAIN response_cache[llm_controller(n)]
        /\ Len(stored[llm_controller(n)]) = 1
        /\ \E r \in BackendOutcomes \cup MockResponses(submitted[llm_controller(n)][1].query) :
              r # Raised /\ current_task[n] = r.new_task

SubmissionStep(n) ==
    LET c == llm_controller(n)
    IN  Tick(n) =>
          /\ ~waiting_for_task[n] =>
                /\ Submits(n) <=> now' - last_llm_update[n] >= NPC_UPDATE_INTERVAL
                /\ Submits(n) =>
                      /\ request_queue'[c] = Append(request_queue[c],
                                                    submitted'[c][Len(submitted'[c])])
                      /\ submitted'[c][Len(submitted'[c])].npc_id = n
                      /\ waiting_for_task'[n]
                /\ ~Submits(n) =>
                      /\ request_queue'[c] = request_queue[c]
                      /\ ~waiting_for_task'[n]
          /\ ConsumeCase(n) =>
                /\ ~Submits(n)
                /\ request_queue'[c] = request_queue[c]

\* C8: a tick of an agent whose waiting_for_task is false submits a request
\* if and only if the time of the tick minus last_llm_update is at least
\* NPC_UPDATE_INTERVAL; a tick that submits appends exactly one request of
\* the agent to the queue and sets waiting_for_task; a tick that consumes a
\* result submits nothing.
C8_Submission == [][\A n \in NPCS : SubmissionStep(n)]_vars

\* C8 witness: an agent has submitted its request on the tick at which
\* exactly NPC_UPDATE_INTERVAL had elapsed since last_llm_update.
C8_Witness ==
    \E n \in NPCS :
        /\ waiting_for_task[n]
        /\ now - last_llm_update[n] = NPC_UPDATE_INTERVAL
        /\ Len(submitted[llm_controller(n)]) = 1
        /\ QueuedFor(llm_controller(n), n) = {1}

\* the requests of agent id whose result controller c has written to the
\* cache
StoredFor(c, id) ==
    {i \in 1..Len(stored[c]) : submitted[c][stored[c][i]].npc_id = id}

\* a cache entry belongs to an agent whose request the worker has finished
\* and which has not consumed the result: the agent still waits, and no
\* other request of the agent is queued or being processed
EntryIsPending ==
    \A c \in Controllers : \A id \in DOMAIN response_cache[c] :
        /\ id \in NPCS
        /\ c = llm_controller(id)
        /\ StoredFor(c, id) # {}
        /\ waiting_for_task[id]
        /\ QueuedFor(c, id) = {}
        /\ ProcessingFor(c, id) = {}

\* an agent that does not wait has no cache entry
AbsentAfterConsumption ==
    \A n \in NPCS :
        ~waiting_for_task[n] => n \notin DOMAIN response_cache[llm_controller(n)]

\* an entry appears only where the worker writes the result of a request of
\* that agent, and disappears only where that agent adopts it on a tick
EntryLifetime ==
    \A c \in Controllers : \A id \in NPCS :
        /\ id \notin DOMAIN response_cache[c] /\ id \in DOMAIN response_cache'[c]
              => /\ Len(stored'[c]) = Len(stored[c]) + 1
                 /\ submitted[c][stored'[c][Len(stored'[c])]].npc_id = id
        /\ id \in DOMAIN response_cache[c] /\ id \notin DOMAIN response_cache'[c]
              => /\ Tick(id)
                 /\ current_task'[id] = response_cache[c][id].new_task
                 /\ ~waiting_for_task'[id]
        /\ id \in DOMAIN response_cache[c] /\ id \in DOMAIN response_cache'[c]
              => response_cache'[c][id] = response_cache[c][id]

\* C9: the response cache holds an entry for an agent id only from the
\* worker's write of the result of a request of that agent until that agent
\* adopts it on a tick; the entry is the only one of the agent, it does not
\* change while it is there, and after the agent has adopted it the entry
\* is absent until the worker writes the result of a later request of the
\* agent.
C9_CacheLifetime ==
    /\ []EntryIsPending
    /\ []AbsentAfterConsumption
    /\ [][EntryLifetime]_vars

\* C9 witness: the result of the second request of an agent is in the
\* cache, after the agent has adopted the result of its first request.
C9_Witness ==
    \E n \in NPCS :
        /\ n \in DOMAIN response_cache[llm_controller(n)]
        /\ stored[llm_controller(n)] = <<1, 2>>
        /\ last_llm_update[n] > 0

\* the threads of controller c that are about to invoke a callback
AtCallback(c) ==
    {t \in 1..Len(threads[c]) :
        /\ threads[c][t].pc \in {"callback", "fallback_callback"}
        /\ threads[c][t].item.callback # "None"}

\* C10 as stated: where the worker is about to invoke the callback,
\* get_cached_response(npc_id) returns the result the callback receives.
C10_CachedAtCallback ==
    \A c \in Controllers : \A t \in AtCallback(c) :
        get_cached_response(c, threads[c][t].item.npc_id) = threads[c][t].response

\* C10: where the worker is about to invoke the callback it has written the
\* result to the cache under the npc_id of the request, the callback
\* receives the result that was written, and get_cached_response(npc_id)
\* returns that result or, the agent having adopted it already, None.
C10_StoredBeforeCallback ==
    \A c \in Controllers : \A t \in 1..Len(threads[c]) :
        LET th == threads[c][t]
        IN  /\ t \in AtCallback(c) =>
                  /\ th.cached = th.response
                  /\ th.response # None
                  /\ th.item.seq \in Range(stored[c])
                  /\ get_cached_response(c, th.item.npc_id) \in {th.response, None}
            /\ th.passed # None =>
                  /\ th.passed = th.cached
                  /\ th.item.seq \in Range(stored[c])
                  /\ th.item.seq \in Range(called[c])

\* C10 witness: the callback of a request has received the result that the
\* worker wrote to the cache, and the agent has adopted it already.
C10_Witness ==
    \E c \in Controllers : \E t \in 1..Len(threads[c]) :
        /\ threads[c][t].pc = "task_done"
        /\ threads[c][t].passed # None
        /\ threads[c][t].passed = threads[c][t].cached
        /\ get_cached_response(c, threads[c][t].item.npc_id) = None

\* the step takes a request off the queue of the dispatcher
Dequeues == Len(dequeued'[Dispatcher]) = Len(dequeued[Dispatcher]) + 1

\* C11: no request is taken off the queue while the shutdown signal is set
\* (is_processing is false): the worker that was running when
\* stop_queue_processing set the signal dequeues nothing more.
C11_NoDequeueAfterSignal == [][Dequeues => is_processing[Dispatcher]]_vars

\* the positions of _process_queue between the get and the end of the
\* iteration
InFlight ==
    {"respond", "cache", "callback", "fallback", "fallback_cache",
     "fallback_callback"}

\* the result of request seq was written to the cache and its callback, if
\* it has one, was invoked
Completed(seq) ==
    /\ seq \in Range(stored[Dispatcher])
    /\ submitted[Dispatcher][seq].callback # "None"
          => seq \in Range(called[Dispatcher])

\* C12: a request that the worker has taken off the queue is not discarded
\* by stop_queue_processing: as long as it is not completed a thread holds
\* it in the body of the loop, and a thread that has ended has written the
\* result of the request it held to the cache and invoked its callback,
\* also when the join returned by timeout.
C12_InFlightCompleted ==
    /\ \A seq \in Range(dequeued[Dispatcher]) :
          Completed(seq) \/ HoldsAt(seq, InFlight)
    /\ \A t \in DispatcherThreads :
          LET th == threads[Dispatcher][t]
          IN  th.pc = "exited" /\ th.item.seq # 0 => Completed(th.item.seq)

\* C12 witness: stop_queue_processing was called while request 1 was in
\* the backend call and its join returned by timeout (the call has
\* returned and the thread is still alive); the thread has since written
\* the result and invoked the callback.
C12_Witness ==
    /\ ~is_processing[Dispatcher]
    /\ joining = {}
    /\ ~use_mock[Dispatcher]
    /\ stopped_at[Dispatcher] = 1
    /\ dequeued[Dispatcher] = <<1>>
    /\ Len(threads[Dispatcher]) = 1
    /\ threads[Dispatcher][1].pc = "task_done"
    /\ submitted[Dispatcher][1].callback # "None"
    /\ Completed(1)

\* thread t of the dispatcher exists and has not ended
Running(t) ==
    t \in DispatcherThreads /\ threads[Dispatcher][t].pc # "exited"

\* thread t of the dispatcher has ended
Exited(t) ==
    t \in DispatcherThreads /\ threads[Dispatcher][t].pc = "exited"

\* C13: under FairSpecD a worker thread that is running while the shutdown
\* signal is set (is_processing is false) eventually ends, also when it
\* waits on the empty queue.
C13_WorkerTerminates ==
    \A t \in 1..MaxThreads :
        (Running(t) /\ ~is_processing[Dispatcher]) ~> Exited(t)

\* C13 witness: stop_queue_processing was called before any request was
\* submitted, and the worker, which found the queue empty, has ended.
C13_Witness ==
    /\ ~is_processing[Dispatcher]
    /\ joining = {}
    /\ submitted[Dispatcher] = <<>>
    /\ Exited(1)

(***************************************************************************)
(* The simulation of one NPC whose controller is shut down while the frame *)
(* loop goes on: NPC.update beside stop_queue_processing and the worker    *)
(***************************************************************************)
NextS ==
    \/ Tick(Dispatcher)
    \/ Stop(Dispatcher)
    \/ JoinReturns(Dispatcher)
    \/ \E t \in DispatcherThreads : W_While(Dispatcher, t)
    \/ \E t \in DispatcherThreads : W_Get(Dispatcher, t)
    \/ \E t \in DispatcherThreads : W_Respond(Dispatcher, t)
    \/ \E t \in DispatcherThreads : W_Cache(Dispatcher, t)
    \/ \E t \in DispatcherThreads : W_Callback(Dispatcher, t)
    \/ \E t \in DispatcherThreads : W_Fallback(Dispatcher, t)
    \/ \E t \in DispatcherThreads : W_FallbackCache(Dispatcher, t)
    \/ \E t \in DispatcherThreads : W_FallbackCallback(Dispatcher, t)
    \/ \E t \in DispatcherThreads : W_TaskDone(Dispatcher, t)

SpecS == Init /\ [][NextS]_vars

\* the bounds of the model leave room for one more request and one more
\* thread of the controller of agent n
Room(n) ==
    /\ Len(submitted[llm_controller(n)]) < MaxRequests
    /\ Len(threads[llm_controller(n)]) < MaxThreads

\* NPC.update of every agent can run to its end, at every time the clock
\* can show, whenever the foreground thread is not inside
\* stop_queue_processing, whatever the queue holds and wherever the worker
\* is
TickCanComplete ==
    \A n \in NPCS :
        \A current_time \in {now, now + TimeStep} :
            \A player_interaction \in PlayerInteractions :
                joining = {} /\ Room(n) /\ current_time <= MaxTime
                    => ENABLED update(n, current_time, player_interaction)

\* a tick makes no step of a worker thread: it leaves the threads that
\* exist and the history of the worker as they are, and the only task it
\* adopts is the one it reads from the cache
ForegroundOnly(n) ==
    LET c == llm_controller(n)
    IN  Tick(n) =>
          /\ \A t \in 1..Len(threads[c]) : threads'[c][t] = threads[c][t]
          /\ UNCHANGED <<dequeued, stored, called, failed>>
          /\ current_task'[n] # current_task[n] =>
                /\ ConsumeCase(n)
                /\ current_task'[n] = get_cached_response(c, n).new_task

\* C14: NPC.update never waits for the worker or the backend: it can
\* complete in every state in which the foreground thread is free, with a
\* request queued, a backend call in flight or the worker stopped, and the
\* backend or mock call is made by steps of the worker thread only, never
\* by a tick.
C14_TickNeverWaits ==
    /\ []TickCanComplete
    /\ [][\A n \in NPCS : ForegroundOnly(n)]_vars

\* C14 witness: the frame loop has gone on ticking after the agent
\* submitted its request, while the worker, which has received the
\* shutdown signal, is still inside the backend call.
C14_Witness ==
    /\ ~is_processing[Dispatcher]
    /\ joining = {}
    /\ ~use_mock[Dispatcher]
    /\ waiting_for_task[Dispatcher]
    /\ now > NPC_UPDATE_INTERVAL
    /\ Len(submitted[Dispatcher]) = 1
    /\ threads[Dispatcher][1].pc = "respond"

(***************************************************************************)
(* The dispatcher with a client that also calls clear_cache                *)
(***************************************************************************)
\* the npc_id arguments of clear_cache: the agent ids and the empty string
ClearIds == AgentIds \cup {""}

NextC ==
    \/ \E id \in AgentIds : Submit(Dispatcher, id, ClientCallback(id))
    \/ \E npc_id \in ClearIds : ClearCache(Dispatcher, npc_id)
    \/ \E t \in DispatcherThreads : W_While(Dispatcher, t)
    \/ \E t \in DispatcherThreads : W_Get(Dispatcher, t)
    \/ \E t \in DispatcherThreads : W_Respond(Dispatcher, t)
    \/ \E t \in DispatcherThreads : W_Cache(Dispatcher, t)
    \/ \E t \in DispatcherThreads : W_Callback(Dispatcher, t)
    \/ \E t \in DispatcherThreads : W_Fallback(Dispatcher, t)
    \/ \E t \in DispatcherThreads : W_FallbackCache(Dispatcher, t)
    \/ \E t \in DispatcherThreads : W_FallbackCallback(Dispatcher, t)
    \/ \E t \in DispatcherThreads : W_TaskDone(Dispatcher, t)

SpecC == Init /\ [][NextC]_vars

\* cache d without the entry of npc_id, and d itself when npc_id has no
\* entry
WithoutEntry(d, npc_id) ==
    IF npc_id \in DOMAIN d THEN DictDel(d, npc_id) ELSE d

\* whatever the cache holds, clear_cache(npc_id) leaves it without the
\* entry of npc_id and with every other entry
ClearsExactlyOne ==
    \A npc_id \in ClearIds :
        clear_cache(Dispatcher, npc_id)
            = WithoutEntry(response_cache[Dispatcher], npc_id)

\* a cache write of the worker changes the entry of the npc_id of the
\* request it holds and nothing else
WritesOwnKey ==
    \A t \in DispatcherThreads :
        W_Cache(Dispatcher, t) \/ W_FallbackCache(Dispatcher, t)
            => LET id == threads[Dispatcher][t].item.npc_id
               IN  /\ id \in DOMAIN response_cache'[Dispatcher]
                   /\ WithoutEntry(response_cache'[Dispatcher], id)
                         = WithoutEntry(response_cache[Dispatcher], id)

\* C15: clear_cache(npc_id) removes the cache entry of exactly that npc_id,
\* for every npc_id, and leaves the cache as it is when that npc_id has no
\* entry; a cache write of the worker changes only the entry of the
\* request it processed.
C15_OwnKeyOnly == []ClearsExactlyOne /\ [][WritesOwnKey]_vars

\* the requests for which controller c has called the backend: the call
\* is running, or it raised
BackendCalls(c) ==
    failed[c]
    \cup {threads[c][t].item.seq : t \in {u \in 1..Len(threads[c]) :
                threads[c][u].pc = "respond" /\ ~use_mock[c]}}

\* with credentials that are missing or invalid the backend is called for
\* no request after the one that found them invalid
NoRetryPerRequest ==
    api_key # Keys.valid =>
        \A c \in Controllers :
            /\ Cardinality(BackendCalls(c)) <= 1
            /\ api_key = Keys.none => use_mock[c] /\ BackendCalls(c) = {}

\* a controller in mock mode stays in mock mode
NeverReverts == \A c \in Controllers : use_mock[c] => use_mock'[c]

\* C16: with credentials that are missing or invalid the controller
\* answers every request with the mock generator for the rest of the
\* process: it calls the backend for no request after the one that found
\* the credentials invalid, and mock mode never goes back to the backend.
C16_PermanentMock == []NoRetryPerRequest /\ [][NeverReverts]_vars

(***************************************************************************)
(* execute_task called on an NPC of any npc_type with any current_task     *)
(***************************************************************************)
DirectiveTexts ==
    [ Guard_Position |-> <<"G", "u", "a", "r", "d", "_", "P", "o", "s", "i", "t", "i", "o", "n">>,
      dance |-> <<"d", "a", "n", "c", "e">>,
      restock |-> <<"r", "e", "s", "t", "o", "c", "k">>,
      Wait_here |-> <<"W", "a", "i", "t", " ", "h", "e", "r", "e">>,
      trade_goods |-> <<"t", "r", "a", "d", "e", " ", "g", "o", "o", "d", "s">>,
      investigate |-> <<"i", "n", "v", "e", "s", "t", "i", "g", "a", "t", "e">>,
      chat |-> <<"c", "h", "a", "t">>,
      stay_close |-> <<"s", "t", "a", "y", " ", "c", "l", "o", "s", "e">>,
      patrol_the_gate |-> <<"p", "a", "t", "r", "o", "l", ":", " ", "t", "h", "e", " ", "g", "a", "t", "e">>,
      sell_wares_now |-> <<"s", "e", "l", "l", "_", "w", "a", "r", "e", "s", " ", "n", "o", "w">>,
      patrol_greet_nearby |-> <<"p", "a", "t", "r", "o", "l", " ", "g", "r", "e", "e", "t", "_", "n", "e", "a", "r", "b", "y">>,
      greet_nearby_follow_player |-> <<"g", "r", "e", "e", "t", "_", "n", "e", "a", "r", "b", "y", " ", "F", "o", "l", "l", "o", "w", "_", "P", "l", "a", "y", "e", "r">>,
      manage_inventory_sell_wares |-> <<"m", "a", "n", "a", "g", "e", "_", "i", "n", "v", "e", "n", "t", "o", "r", "y", " ", "s", "e", "l", "l", "_", "w", "a", "r", "e", "s">> ]

\* the task labels given to execute_task: the function-style names, the
\* tasks of the mock generator, words of the patterns, a word that matches
\* no rule, the empty string, and labels with a function-style name beside
\* a word of the patterns or beside another function-style name
Labels ==
    {FunctionNames.follow_player, FunctionNames.tend_crops, DirectiveTexts.Guard_Position,
     TaskNames.patrol, TaskNames.follow_player, TaskNames.guard_position, TaskNames.wander, TaskNames.idle,
     TaskNames.greet_nearby, TaskNames.tend_crops, TaskNames.rest_at_home, TaskNames.talk_to_others,
     TaskNames.inspect_surroundings, TaskNames.sell_wares, TaskNames.manage_inventory,
     DirectiveTexts.restock, DirectiveTexts.Wait_here, DirectiveTexts.trade_goods, DirectiveTexts.investigate, DirectiveTexts.chat,
     DirectiveTexts.dance, <<>>,
     DirectiveTexts.patrol_greet_nearby, DirectiveTexts.greet_nearby_follow_player,
     DirectiveTexts.manage_inventory_sell_wares}

\* the task descriptions: words of no rule, words of a rule with a second
\* colon, a function-style name
Descriptions == {DirectiveTexts.stay_close, DirectiveTexts.patrol_the_gate, DirectiveTexts.sell_wares_now}

\* f"{task}: {description}"
WithDescription(label, description) == label \o Texts.colon_space \o description

\* the values of current_task given to execute_task
Directives ==
    Labels \cup {WithDescription(label, description) :
                    label \in Labels, description \in Descriptions}

\* npc.current_task = task; npc.execute_task(player, world) on a new NPC
\* of npc_type type
Execute(type, task) ==
    /\ executed = NotExecuted
    /\ executed' = Executed(type, task)
    /\ UNCHANGED unitVars
    /\ UNCHANGED <<now, npcVars, ctlVars, joining, logVars>>

NextE == \E type \in NpcTypes : \E task \in Directives : Execute(type, task)

SpecE == Init /\ [][NextE]_vars

\* a call of execute_task has been made
HasExecuted == executed # NotExecuted

\* C17: execute_task resolves a directive "label: description" as it
\* resolves the label alone, for every npc_type and every description, and
\* a directive whose label is follow_player to the follow_player behaviour.
C17_DescriptionIgnored ==
    HasExecuted /\ HasChar(executed.current_task, ":") =>
        LET label == BeforeColon(executed.current_task)
        IN  /\ executed.behaviour = execute_task(label, executed.npc_type)
            /\ label = FunctionNames.follow_player => executed.behaviour = "follow_player"

\* C17 witness: a merchant was given "follow_player: patrol: the gate" and
\* called follow_player.
C17_Witness ==
    /\ executed.npc_type = "merchant"
    /\ executed.current_task = WithDescription(FunctionNames.follow_player, DirectiveTexts.patrol_the_gate)
    /\ executed.behaviour = "follow_player"

\* the words of the rules of execute_task that test for npc_type type
TypeWords(type) ==
    IF type = "villager"
    THEN {Keywords.farm, Keywords.crops, Keywords.tend, Keywords.harvest, Keywords.rest, Keywords.sleep, Keywords.home,
          Keywords.talk, Keywords.chat, Keywords.gossip}
    ELSE IF type = "guard" THEN {Keywords.inspect, Keywords.investigate}
    ELSE {Keywords.sell, Keywords.trade, Keywords.market, Keywords.restock, Keywords.inventory, Keywords.goods,
          Keywords.arrange}

\* the behaviours of the rules of execute_task that test for npc_type type
TypeBehaviours(type) ==
    IF type = "villager" THEN {"tend_crops", "rest_at_home", "talk_to_others"}
    ELSE IF type = "guard" THEN {"inspect_surroundings"}
    ELSE {"sell_wares", "manage_inventory"}

\* t matches a function-style name or a rule that is open to every npc_type
MatchesCommonRule(t) ==
    \/ FunctionStyle(t) # ""
    \/ Contains(t, Keywords.patrol)
    \/ AnyIn(t, {Keywords.follow, Keywords.approach, Keywords.chase}) /\ Contains(t, Keywords.player)
    \/ AnyIn(t, {Keywords.guard, Keywords.protect, Keywords.watch, Keywords.stand})
    \/ AnyIn(t, {Keywords.wander, Keywords.explore, Keywords.roam, Keywords.walk})
    \/ AnyIn(t, {Keywords.greet, Keywords.wave, Keywords.welcome})
    \/ Contains(t, Keywords.idle) \/ Contains(t, Keywords.wait)

\* t matches nothing but rules that test for another npc_type than type
OnlyOtherTypes(t, type) ==
    /\ ~MatchesCommonRule(t)
    /\ ~AnyIn(t, TypeWords(type))
    /\ \E other \in NpcTypes \ {type} : AnyIn(t, TypeWords(other))

\* C18: a task that matches only pattern rules of another npc_type
\* resolves to wander, "tend crops" for a guard among them, and by the
\* pattern rules no NPC calls a behaviour of another npc_type.
C18_TypeGated ==
    HasExecuted =>
        LET t == task_lower(executed.current_task)
            type == executed.npc_type
        IN  /\ OnlyOtherTypes(t, type) => executed.behaviour = "wander"
            /\ type = "guard" /\ t = TaskNames.tend_crops => executed.behaviour = "wander"
            /\ FunctionStyle(t) = "" =>
                  \A other \in NpcTypes \ {type} :
                      executed.behaviour \notin TypeBehaviours(other)

\* C18 witness: a guard was given "tend crops" and called wander.
C18_Witness ==
    /\ executed.npc_type = "guard"
    /\ executed.current_task = TaskNames.tend_crops
    /\ executed.behaviour = "wander"

\* the behaviour methods of NPC
Behaviours ==
    {"patrol", "follow_player", "guard_position", "wander", "idle",
     "tend_crops", "rest_at_home", "talk_to_others", "inspect_surroundings",
     "sell_wares", "manage_inventory", "greet_nearby"}

\* C19: for every current_task, the empty string among them, and every
\* npc_type, execute_task calls one of the behaviour methods, and it calls
\* wander for a task that matches no rule.
C19_DispatchTotal ==
    HasExecuted =>
        LET t == task_lower(executed.current_task)
        IN  /\ executed.behaviour \in Behaviours
            /\ ~MatchesCommonRule(t) /\ ~AnyIn(t, TypeWords(executed.npc_type))
                  => executed.behaviour = "wander"

\* C19 witness: execute_task was called with the empty string and with a
\* word of no rule, and called wander.
C19_Witness ==
    /\ executed.current_task \in {<<>>, DirectiveTexts.dance}
    /\ executed.behaviour = "wander"

(***************************************************************************)
(* The dispatcher given one request with any query                         *)
(***************************************************************************)
\* the query arguments: every npc_type and one that available_tasks does
\* not have ("bandit"), a
\* current_task that is in the pool with several copies, with one copy,
\* only for one npc_type, with a description, or empty, with and without
\* the player nearby; and a query that has no npc_type key
MockQueries ==
    {[npc_id |-> "A", npc_type |-> type, current_task |-> task,
      last_completed_task |-> None, current_state |-> TaskNames.idle,
      player_interaction |-> player_interaction] :
        type \in NpcTypes \cup {"bandit"},
        task \in {TaskNames.follow_player, TaskNames.greet_nearby, TaskNames.idle, TaskNames.tend_crops,
                  WithDescription(TaskNames.follow_player, DirectiveTexts.stay_close), <<>>},
        player_interaction \in {"player nearby", "none"}}
    \cup
    {[npc_id |-> "A", current_task |-> TaskNames.idle,
      player_interaction |-> "none"]}

\* the first call of queue_npc_task_request
SubmitFirst(c, query) ==
    /\ joining = {}
    /\ submitted[c] = <<>>
    /\ queue_npc_task_request(c, query.npc_id, query, ClientCallback(query.npc_id))
    /\ UNCHANGED <<now, executed, unitVars, npcVars, use_mock, api_key, response_cache,
                   joining, dequeued, stored, called, failed, stopped_at>>

NextM ==
    \/ \E query \in MockQueries : SubmitFirst(Dispatcher, query)
    \/ \E t \in DispatcherThreads : W_While(Dispatcher, t)
    \/ \E t \in DispatcherThreads : W_Get(Dispatcher, t)
    \/ \E t \in DispatcherThreads : W_Respond(Dispatcher, t)
    \/ \E t \in DispatcherThreads : W_Cache(Dispatcher, t)
    \/ \E t \in DispatcherThreads : W_Callback(Dispatcher, t)
    \/ \E t \in DispatcherThreads : W_Fallback(Dispatcher, t)
    \/ \E t \in DispatcherThreads : W_FallbackCache(Dispatcher, t)
    \/ \E t \in DispatcherThreads : W_FallbackCallback(Dispatcher, t)
    \/ \E t \in DispatcherThreads : W_TaskDone(Dispatcher, t)

SpecM == Init /\ [][NextM]_vars

\* the thread answered the request it holds with _get_mock_response
AnsweredByMock(th) ==
    /\ th.item.seq # 0
    /\ th.response # None
    /\ use_mock[Dispatcher] \/ th.item.seq \in failed[Dispatcher]

\* C20: for the query of every request, no task that _get_mock_response
\* can draw is empty or equal to the current_task of the query, also when
\* the weighting for a nearby player has put several copies of
\* current_task in the list; the task it returned is one of those.
C20_MockNeverRepeats ==
    \A t \in DispatcherThreads :
        LET th == threads[Dispatcher][t]
            task_options == MockTaskOptions(th.item.query)
        IN  th.item.seq # 0 =>
              /\ task_options # <<>>
              /\ \A i \in 1..Len(task_options) :
                    /\ task_options[i] # <<>>
                    /\ task_options[i] # th.item.query.current_task
              /\ AnsweredByMock(th) =>
                    /\ InList(th.response.new_task, task_options)
                    /\ th.response.new_task # <<>>
                    /\ th.response.new_task # th.item.query.current_task

\* C20 witness: the mock generator has answered a query whose current_task
\* the weighting for a nearby player put in the list four times.
C20_Witness ==
    \E t \in DispatcherThreads :
        LET th == threads[Dispatcher][t]
        IN  /\ AnsweredByMock(th)
            /\ th.item.query.current_task = TaskNames.follow_player
            /\ th.item.query.player_interaction = "player nearby"
            /\ th.response.new_task # TaskNames.follow_player

(***************************************************************************)
(* C21: the candidate pool of the mock generator                           *)
(***************************************************************************)
\* the tasks of a list, as a set
TasksOf(list) == {list[i] : i \in 1..Len(list)}

\* the pool the specification describes for a query: the universal tasks
\* with the tasks of the queried type, and with the villager tasks when
\* the type is none of villager, guard and merchant
DescribedPool(query) ==
    LET queried == QueryGet(query, "npc_type", "villager")
        type == IF queried \in NpcTypes THEN queried ELSE "villager"
    IN  TasksOf(available_tasks.common) \cup TasksOf(available_tasks[type])

\* C21: for the query of every request the dispatcher holds, the candidate
\* pool of the mock generator is the universal task set united with the
\* set of the queried agent type, and with the villager set when the agent
\* type is not villager, guard or merchant.
C21_PoolByType ==
    \A t \in DispatcherThreads :
        LET th == threads[Dispatcher][t]
        IN  th.item.seq # 0 =>
              TasksOf(TypedTaskOptions(th.item.query)) = DescribedPool(th.item.query)

\* C21, for the recognised types and for a query with no npc_type: the
\* pool is the universal set united with the set of the type, the
\* villager set when the query names no type.
C21_PoolOfKnownType ==
    \A t \in DispatcherThreads :
        LET th == threads[Dispatcher][t]
            query == th.item.query
        IN  th.item.seq # 0 /\ QueryGet(query, "npc_type", "villager") \in NpcTypes =>
              TasksOf(TypedTaskOptions(query)) = DescribedPool(query)

(***************************************************************************)
(* C22: tasks persist across ticks                                         *)
(***************************************************************************)
\* C22: current_task of an agent changes only in a tick of that agent
\* that consumes a cached result; a tick that waits without a result,
\* submits a request or falls between updates leaves it unchanged, and so
\* does every step of a worker; every tick, whichever branch it takes,
\* ends with the one call of execute_task on the task the agent then has.
C22_TaskPersists ==
    [][\A n \in NPCS :
          /\ current_task'[n] # current_task[n] => Tick(n) /\ ConsumeCase(n)
          /\ Tick(n) =>
                /\ ~ConsumeCase(n) => current_task'[n] = current_task[n]
                /\ executed' = Executed(npc_type(n), current_task'[n])]_vars

\* C22 witness: an agent that consumed a result and was given a task
\* other than its first has gone on ticking with it: its last tick, later
\* than the consumption, executed that same task.
C22_Witness ==
    \E n \in NPCS :
        /\ current_task[n] # TaskNames.idle
        /\ ~waiting_for_task[n]
        /\ now > last_llm_update[n]
        /\ executed = Executed(npc_type(n), current_task[n])

(***************************************************************************)
(* An NPC object whose has_reached_target is called directly               *)
(***************************************************************************)
MaxCoord == 4

\* NPC(npc_id, npc_type, x, y)
NewNPC(x, y) ==
    /\ reached = NotCalled
    /\ body' = NewBody(x, y)
    /\ UNCHANGED <<now, npcVars, ctlVars, joining, logVars, executed, reached, parsed, world>>

\* self.target_x = ...; self.target_y = ... of a behaviour
SetTarget(target_x, target_y) ==
    /\ reached = NotCalled
    /\ body' = [body EXCEPT !.target_x = Coord(target_x),
                            !.target_y = Coord(target_y)]
    /\ UNCHANGED <<now, npcVars, ctlVars, joining, logVars, executed, reached, parsed, world>>

\* a call of has_reached_target()
HasReachedTarget ==
    /\ reached = NotCalled
    /\ reached' = [called |-> TRUE, body |-> body,
                   result |-> has_reached_target(body)]
    /\ UNCHANGED <<now, npcVars, ctlVars, joining, logVars, executed, body, parsed, world>>

NextT ==
    \/ \E x \in 0..MaxCoord : \E y \in 0..MaxCoord : NewNPC(x, y)
    \/ \E target_x \in 0..MaxCoord : \E target_y \in 0..MaxCoord :
          SetTarget(target_x, target_y)
    \/ HasReachedTarget

SpecT == Init /\ [][NextT]_vars

\* has_reached_target was called on an NPC that has a target
CalledWithTarget ==
    /\ reached.called
    /\ reached.body.target_x # NoCoord
    /\ reached.body.target_y # NoCoord

\* the NPC is d units from its target along one axis
AlongAxis(b, d) ==
    \/ b.target_y[1] = b.y /\ (b.target_x[1] - b.x = d \/ b.x - b.target_x[1] = d)
    \/ b.target_x[1] = b.x /\ (b.target_y[1] - b.y = d \/ b.y - b.target_y[1] = d)

\* C23: with a target set, has_reached_target returns TRUE exactly when
\* the distance to the target is strictly less than speed: FALSE for an
\* agent exactly speed units from the target, TRUE for one a unit closer.
C23_StrictArrival ==
    CalledWithTarget =>
        /\ reached.result <=>
              DistanceSquared(reached.body) < NPC_SPEED * NPC_SPEED
        /\ AlongAxis(reached.body, NPC_SPEED) => ~reached.result
        /\ AlongAxis(reached.body, NPC_SPEED - 1) => reached.result

\* C23 witness: has_reached_target was called on an agent exactly speed
\* units from its target and returned FALSE.
C23_Witness ==
    /\ CalledWithTarget
    /\ AlongAxis(reached.body, NPC_SPEED)
    /\ reached.result = FALSE

(***************************************************************************)
(* _get_openai_response called directly on what the backend answered       *)
(***************************************************************************)
\* a tool call whose arguments hold a task_description and no task
AnswerToolCallNoTaskDescribed ==
    [transport |-> "ok", tool_calls |-> "call", name |-> "assign_task_to_npc",
     arguments |-> [Arguments(<<>>, Texts.stay_close) EXCEPT !.has_task = FALSE],
     content |-> None]

\* the answers of the backend that return from chat.completions.create:
\* each text message with an empty list of tool calls, with a tool call
\* whose arguments are not JSON and with tool_calls None; tool calls with
\* and without task, description and underscores; the other paths
ParserInputs ==
    {AnswerText([text |-> text]) :
        text \in {ContentTexts.json, ContentTexts.fenced,
                  ContentTexts.malformed, ContentTexts.plain, Texts.task_blank}}
    \cup {AnswerBadJson(text) :
        text \in {ContentTexts.json, ContentTexts.fenced,
                  ContentTexts.malformed, ContentTexts.plain}}
    \cup {AnswerTextOnly(text) :
        text \in {ContentTexts.json, ContentTexts.fenced,
                  ContentTexts.malformed, ContentTexts.plain}}
    \cup {AnswerToolCall(task, description) :
        task \in {Texts.follow_player, FunctionNames.rest_at_home,
                  FunctionNames.guard_position, TaskNames.patrol, <<>>},
        description \in {<<>>, Texts.stay_close, DirectiveTexts.patrol_the_gate}}
    \cup {AnswerToolCallNoTask, AnswerToolCallNoTaskDescribed,
          AnswerOtherFunction, AnswerText(None), AnswerNoToolCalls}

\* a direct call of _get_openai_response(query) that the backend answers
\* with raw
GetOpenaiResponse(raw) ==
    /\ parsed = NotParsed
    /\ parsed' = [called |-> TRUE, raw |-> raw,
                  outcome |-> ParseBackendResponse(raw)]
    /\ UNCHANGED <<now, npcVars, ctlVars, joining, logVars, executed, body,
                   reached, world>>

NextP == \E raw \in ParserInputs : GetOpenaiResponse(raw)

SpecP == Init /\ [][NextP]_vars

\* the text message of the answer is text
ContentIs(text) ==
    /\ parsed.raw.content # None
    /\ parsed.raw.content.text = text

\* the call returned the directive new_task
Yields(new_task) == parsed.outcome = [new_task |-> new_task]

\* C24: for every answer of the backend the parser returns a string and
\* never raises; the JSON object {"new_task":"patrol"} yields "patrol",
\* the same object in code fences yields "patrol", text that is not JSON
\* and contains new_task: "wander" yields "wander", and text with no
\* recognisable pattern yields "idle".
C24_ParserTotal ==
    parsed.called =>
        /\ parsed.outcome # Raised
        /\ ContentIs(ContentTexts.json) => Yields(TaskNames.patrol)
        /\ ContentIs(ContentTexts.fenced) => Yields(TaskNames.patrol)
        /\ ContentIs(ContentTexts.malformed) => Yields(TaskNames.wander)
        /\ ContentIs(ContentTexts.plain) => Yields(TaskNames.idle)

\* C24, for the answers whose tool_calls is a list: the call returns a
\* directive, and the four texts yield "patrol", "patrol", "wander", "idle".
C24_TotalOnToolCallLists ==
    parsed.called /\ parsed.raw.tool_calls # "None" =>
        /\ parsed.outcome # Raised
        /\ ContentIs(ContentTexts.json) => Yields(TaskNames.patrol)
        /\ ContentIs(ContentTexts.fenced) => Yields(TaskNames.patrol)
        /\ ContentIs(ContentTexts.malformed) => Yields(TaskNames.wander)
        /\ ContentIs(ContentTexts.plain) => Yields(TaskNames.idle)

\* the answer is a tool call of assign_task_to_npc with JSON arguments
IsToolCall ==
    /\ parsed.called
    /\ parsed.raw.tool_calls = "call"
    /\ parsed.raw.name = "assign_task_to_npc"
    /\ parsed.raw.arguments.valid

\* the directive for task and description: the task with spaces for
\* underscores, then ": " and the description when there is one
Joined(task, description) ==
    LET spaced == [i \in 1..Len(task) |-> IF task[i] = "_" THEN " " ELSE task[i]]
    IN  IF description = <<>> THEN spaced
        ELSE spaced \o <<":", " ">> \o description

\* the task_description argument, empty when there is none
DescriptionOf(args) == IF args.has_description THEN args.description ELSE <<>>

\* C25 as stated: a tool call with a task yields the task with spaces for
\* underscores, followed by ": " and the description when there is a
\* non-empty one; a tool call with no task argument yields "idle".
C25_ToolCallDirective ==
    IsToolCall =>
        LET args == parsed.raw.arguments
        IN  IF args.has_task
            THEN Yields(Joined(args.task, DescriptionOf(args)))
            ELSE Yields(TaskNames.idle)

\* C25 amended: a tool call with no task argument is read as the task
\* "idle" and joined with the description in the same way.
C25_ToolCallDirectiveIdleTask ==
    IsToolCall =>
        LET args == parsed.raw.arguments
            task == IF args.has_task THEN args.task ELSE TaskNames.idle
        IN  Yields(Joined(task, DescriptionOf(args)))

\* C25 witness: the tool call guard_position with the description
\* "patrol: the gate" yielded "guard position: patrol: the gate".
C25_Witness ==
    /\ IsToolCall
    /\ parsed.raw.arguments.task = FunctionNames.guard_position
    /\ parsed.raw.arguments.description = DirectiveTexts.patrol_the_gate
    /\ Yields(<<"g", "u", "a", "r", "d", " ", "p", "o", "s", "i", "t", "i", "o", "n", ":", " ">>
              \o DirectiveTexts.patrol_the_gate)

(***************************************************************************)
(* C26: the agents and their workers under fair scheduling                 *)
(***************************************************************************)
\* the agents of the frame loop: each has its own controller and worker,
\* and a tick or a worker step of one reads and writes nothing of another
Agents == {"villager_0"}

\* a step of thread t of controller c, if it has been created
WorkerStep(c, t) == t \in 1..Len(threads[c]) /\ _process_queue(c, t)

NextA ==
    \/ \E n \in Agents : Tick(n)
    \/ \E n \in Agents : \E t \in 1..MaxThreads : WorkerStep(llm_controller(n), t)

SpecA == Init /\ [][NextA]_vars

\* SpecA with the frame loop calling NPC.update of every agent again and
\* again, every worker thread scheduled fairly, and every backend, mock
\* and callback call returning; SpecA has no stop_queue_processing
FairSpecA ==
    /\ SpecA
    /\ \A n \in Agents : WF_vars(Tick(n))
    /\ \A n \in Agents : \A t \in 1..MaxThreads :
          WF_vars(WorkerStep(llm_controller(n), t))

\* C26: under FairSpecA every agent whose waiting_for_task is true
\* eventually has waiting_for_task false again, which only the tick that
\* consumes a result brings about.
C26_NoAgentWaitsForever ==
    \A n \in Agents : waiting_for_task[n] ~> ~waiting_for_task[n]

\* C26 witness: an agent has submitted a request, its worker has cached
\* the result, and a tick has consumed it: the agent no longer waits and
\* the cache entry is gone.
C26_Witness ==
    \E n \in Agents :
        /\ 1 \in Range(stored[llm_controller(n)])
        /\ ~waiting_for_task[n]
        /\ n \notin DOMAIN response_cache[llm_controller(n)]
        /\ last_llm_update[n] > 0

(***************************************************************************)
(* C27: idempotent worker start                                            *)
(***************************************************************************)
\* a call made while a worker of the dispatcher is alive creates no
\* worker and does not take back the shutdown signal
NoStartWhileAlive ==
    AliveThreads(Dispatcher) # {} =>
        /\ Len(threads'[Dispatcher]) = Len(threads[Dispatcher])
        /\ processing_thread'[Dispatcher] = processing_thread[Dispatcher]
        /\ is_processing'[Dispatcher] => is_processing[Dispatcher]

\* C27: whatever start_queue_processing, queue_npc_task_request and
\* stop_queue_processing calls the foreground thread makes on one
\* dispatcher, at most one of its worker threads is alive at any time,
\* and a start while a worker is alive creates no worker and leaves the
\* shutdown flag as it is.
C27_IdempotentStart ==
    /\ [](Cardinality(AliveThreads(Dispatcher)) <= 1)
    /\ [][NoStartWhileAlive]_vars

\* C27 witness: stop_queue_processing gave up its join while the worker
\* was in the backend call, queue_npc_task_request then called
\* start_queue_processing, and the dispatcher still has that one thread
\* and the shutdown flag set.
C27_Witness ==
    /\ stopped_at[Dispatcher] = 1
    /\ Len(submitted[Dispatcher]) = 2
    /\ joining = {}
    /\ ~is_processing[Dispatcher]
    /\ Len(threads[Dispatcher]) = 1
    /\ threads[Dispatcher][1].pc = "respond"

(***************************************************************************)
(* C28: one callback invocation for a processed request                    *)
(***************************************************************************)
\* how many times the callback of request seq was invoked
Invocations(seq) ==
    Cardinality({i \in 1..Len(called[Dispatcher]) : called[Dispatcher][i] = seq})

\* the worker has taken request seq off the queue and has left the body
\* of the loop for it
Ended(seq) == seq \in Range(dequeued[Dispatcher]) /\ ~HoldsAt(seq, InFlight)

\* the callback of request seq is invoked once, with the value that is in
\* the cache for its agent id when the processing ends
OnceWithCachedValue(seq) ==
    /\ Invocations(seq) <= 1
    /\ Ended(seq) => Invocations(seq) = 1
    /\ \A t \in DispatcherThreads :
          LET th == threads[Dispatcher][t]
          IN  th.item.seq = seq =>
                /\ th.pc \notin InFlight => th.passed = th.cached
                /\ th.pc = "task_done" =>
                      th.passed = get_cached_response(Dispatcher, th.item.npc_id)

\* C28: for every processed request that has a callback, the callback is
\* invoked exactly once, with the value left in the cache for the agent
\* id when the processing of the request ends, on the success path, on the
\* backend-failure path and when the callback raises.
C28_CallbackExactlyOnce ==
    \A seq \in 1..Len(submitted[Dispatcher]) :
        submitted[Dispatcher][seq].callback # "None" => OnceWithCachedValue(seq)

\* C28, for the callbacks that return: invoked exactly once, with the
\* cached value, on the success path and on the backend-failure path.
C28_OnceWhenCallbackReturns ==
    \A seq \in 1..Len(submitted[Dispatcher]) :
        submitted[Dispatcher][seq].callback = "returns" => OnceWithCachedValue(seq)

(***************************************************************************)
(* C29: minimum spacing of requests                                        *)
(***************************************************************************)
\* last_llm_update of agent n is written only by a tick of n that consumes
\* a result, which sets it to the time of that tick; so it is the time of
\* the creation of the agent or of its most recent consumption
StampedByConsumption(n) ==
    /\ last_llm_update'[n] # last_llm_update[n] => Tick(n) /\ ConsumeCase(n)
    /\ Tick(n) /\ ConsumeCase(n) => last_llm_update'[n] = now'

\* a tick of agent n that submits a request comes at least
\* NPC_UPDATE_INTERVAL after that time and leaves last_llm_update as it is
SpacedSubmission(n) ==
    Submits(n) =>
        /\ now' - last_llm_update[n] >= NPC_UPDATE_INTERVAL
        /\ last_llm_update'[n] = last_llm_update[n]

\* C29: an agent never submits a request earlier than NPC_UPDATE_INTERVAL
\* after its creation or after its most recent consumption of a result;
\* last_llm_update is written only at creation and on a consumption tick,
\* never on a submission tick.
C29_MinimumSpacing ==
    [][\A n \in NPCS : StampedByConsumption(n) /\ SpacedSubmission(n)]_vars

\* C29 witness: an agent that consumed a result has submitted its second
\* request, NPC_UPDATE_INTERVAL or more after the consumption.
C29_Witness ==
    \E n \in NPCS :
        /\ Len(submitted[llm_controller(n)]) = 2
        /\ waiting_for_task[n]
        /\ last_llm_update[n] > 0
        /\ now - last_llm_update[n] >= NPC_UPDATE_INTERVAL

(***************************************************************************)
(* C30: the identifier tier precedes the keyword tier                      *)
(***************************************************************************)
\* the underscore identifiers, in the order of the claim
IdentifierOrder ==
    <<"follow_player", "guard_position", "tend_crops", "rest_at_home",
      "talk_to_others", "inspect_surroundings", "sell_wares",
      "manage_inventory", "greet_nearby">>

\* the label of a directive: the lower-cased text before the first colon
LabelOf(task) ==
    IF HasChar(task, ":") THEN BeforeColon(Lower(task)) ELSE Lower(task)

\* the positions in IdentifierOrder of the identifiers the label contains
IdentifiersIn(label) ==
    {i \in 1..Len(IdentifierOrder) :
        Contains(label, FunctionNames[IdentifierOrder[i]])}

\* C30: when the label of the directive contains underscore identifiers,
\* execute_task calls the behaviour of the one that comes first in the
\* order follow_player, guard_position, tend_crops, rest_at_home,
\* talk_to_others, inspect_surroundings, sell_wares, manage_inventory,
\* greet_nearby, for every npc_type and whatever keywords the label holds.
C30_IdentifierFirst ==
    HasExecuted =>
        LET found == IdentifiersIn(LabelOf(executed.current_task))
        IN  found # {} =>
              executed.behaviour =
                  IdentifierOrder[CHOOSE i \in found : \A j \in found : i <= j]

\* C30 witness: a guard given "manage_inventory sell_wares", two
\* identifiers of merchant behaviours with sell_wares the earlier in the
\* order, called sell_wares.
C30_Witness ==
    /\ executed.npc_type = "guard"
    /\ executed.current_task = DirectiveTexts.manage_inventory_sell_wares
    /\ executed.behaviour = "sell_wares"

(***************************************************************************)
(* C31: the tasks of the mock generator, given to execute_task             *)
(***************************************************************************)
\* npc.current_task = controller._get_mock_response(query)["new_task"],
\* for the query at the head of the queue and any outcome of
\* random.choice, then npc.execute_task(player, world) on a new NPC of the
\* npc_type of the query
MockThenExecute(c) ==
    /\ executed = NotExecuted
    /\ request_queue[c] # <<>>
    /\ \E query \in {Head(request_queue[c]).query} :
       \E new_task \in TasksOf(MockTaskOptions(query)) :
          executed' = Executed(query.npc_type, new_task)
    /\ UNCHANGED unitVars
    /\ UNCHANGED <<now, npcVars, ctlVars, joining, logVars>>

NextX ==
    \/ \E query \in {q \in MockQueries : "npc_type" \in DOMAIN q} :
          SubmitFirst(Dispatcher, query)
    \/ MockThenExecute(Dispatcher)

SpecX == Init /\ [][NextX]_vars

\* the name of a behaviour method, as characters
NameOf(behaviour) ==
    IF behaviour \in DOMAIN FunctionNames
    THEN FunctionNames[behaviour] ELSE TaskNames[behaviour]

\* C31: for an agent of type villager, guard or merchant, every task the
\* mock generator can return for a query of that type makes execute_task
\* call the behaviour of the same name (the task with "_" for its spaces),
\* and wander only when the task is "wander".
C31_MockTasksDispatch ==
    HasExecuted /\ executed.npc_type \in NpcTypes =>
        /\ executed.behaviour \in Behaviours
        /\ NameOf(executed.behaviour) = Replace(executed.current_task, " ", "_")
        /\ executed.behaviour = "wander" => executed.current_task = TaskNames.wander

\* C31 witness: the mock generator returned "manage inventory" for a
\* merchant, and a merchant given it called manage_inventory.
C31_Witness ==
    /\ request_queue[Dispatcher] # <<>>
    /\ Head(request_queue[Dispatcher]).query.npc_type = "merchant"
    /\ executed.npc_type = "merchant"
    /\ executed.current_task = TaskNames.manage_inventory
    /\ executed.behaviour = "manage_inventory"

(***************************************************************************)
(* C32: no directive twice in a row in mock mode                           *)
(***************************************************************************)
\* the query of the last request agent n submitted
LastQuery(n) ==
    submitted[llm_controller(n)][Len(submitted[llm_controller(n)])].query

\* the step is a consumption tick of agent n
Consumes(n) == waiting_for_task[n] /\ ~waiting_for_task'[n]

\* a consumption tick of an agent in mock mode adopts a task other than
\* the one it had, which is the one it had when it submitted the request
AdoptsAnotherTask(n) ==
    Consumes(n) /\ use_mock[llm_controller(n)] =>
        /\ current_task[n] = LastQuery(n).current_task
        /\ current_task'[n] # current_task[n]

\* C32: in mock mode, the task an agent adopts on a consumption tick is
\* not the task it had when it submitted the request, for the first
\* request, submitted with the task "idle", and for every later one.
C32_NoRepeatInMockMode == [][\A n \in NPCS : AdoptsAnotherTask(n)]_vars

\* C32 witness: an agent in mock mode has consumed the result of its
\* second request, which it submitted with a task other than "idle", and
\* has another task now.
C32_Witness ==
    \E n \in NPCS :
        /\ use_mock[llm_controller(n)]
        /\ Len(submitted[llm_controller(n)]) = 2
        /\ ~waiting_for_task[n]
        /\ LastQuery(n).current_task # TaskNames.idle
        /\ current_task[n] # LastQuery(n).current_task

(***************************************************************************)
(* C33: the weighting for a nearby player                                  *)
(***************************************************************************)
\* the tags of player_interaction that indicate proximity
ProximityTags == {"player nearby", "player very close"}

\* the query with another player_interaction
Tagged(query, tag) == [query EXCEPT !.player_interaction = tag]

\* the number of copies of task in list
Copies(list, task) == Cardinality({i \in 1..Len(list) : list[i] = task})

\* the list drawn from with the player near holds the same tasks as the
\* list drawn from with the player away, with as many copies of each task
\* but "follow player" and "greet nearby", and no fewer of these two
SamePoolWhenNear(query) ==
    \A tag \in ProximityTags :
        LET near == MockTaskOptions(Tagged(query, tag))
            away == MockTaskOptions(Tagged(query, "none"))
        IN  /\ TasksOf(near) = TasksOf(away)
            /\ \A task \in TasksOf(away) :
                  IF InList(task, interactive_tasks)
                  THEN Copies(near, task) >= Copies(away, task)
                  ELSE Copies(near, task) = Copies(away, task)

\* C33: for the query of every request, of every npc_type and
\* current_task, the set of tasks _get_mock_response can return is the
\* same with a player_interaction that indicates proximity as without;
\* proximity changes only the number of copies of "follow player" and
\* "greet nearby".
C33_ProximityKeepsPool ==
    \A t \in DispatcherThreads :
        LET th == threads[Dispatcher][t]
        IN  th.item.seq # 0 => SamePoolWhenNear(th.item.query)

\* C33 witness: the mock generator answered "follow player" to a query
\* with the player nearby, from a list longer than the list for the same
\* query with the player away.
C33_Witness ==
    \E t \in DispatcherThreads :
        LET th == threads[Dispatcher][t]
        IN  /\ AnsweredByMock(th)
            /\ th.item.query.player_interaction = "player nearby"
            /\ th.response.new_task = TaskNames.follow_player
            /\ Len(MockTaskOptions(th.item.query)) >
                   Len(MockTaskOptions(Tagged(th.item.query, "none")))

(***************************************************************************)
(* An NPC that walks in a world, one call of execute_task at a time        *)
(***************************************************************************)
\* the worlds an NPC of npc_type type is put in: 2000 by 2000, with any of
\* a tree and a house as _create_objects makes them, and with world.npcs
\* empty, holding the NPC itself, or the NPC and another.  The corner of
\* the tree,
\* the other NPC and the point of the house that the behaviours of the
\* type walk to (its centre for a villager, its corner for the others) are
\* on the line.
Worlds(type) ==
    LET tree == [x |-> Origin + 2, y |-> Origin, width |-> 32, height |-> 32,
                 obj_type |-> "tree"]
        house == IF type = "villager"
                 THEN [x |-> Origin + 4 - 32, y |-> Origin - 32, width |-> 64,
                       height |-> 64, obj_type |-> "house"]
                 ELSE [x |-> Origin + 4, y |-> Origin, width |-> 64,
                       height |-> 64, obj_type |-> "house"]
    IN  {[width |-> WORLD_WIDTH, height |-> WORLD_HEIGHT, objects |-> objects,
          npcs |-> npcs] :
            objects \in SUBSET {tree, house},
            npcs \in {[self |-> FALSE, others |-> {}],
                      [self |-> TRUE, others |-> {}],
                      [self |-> TRUE, others |-> {[x |-> Origin + 5, y |-> Origin]}]}}

\* GameWorld() with the content w, and NPC(npc_id, x, Origin, type)
CreateWorld(type, w, x) ==
    /\ world = NoWorld
    /\ reached = NotCalled
    /\ parsed = NotParsed
    /\ executed = NotExecuted
    /\ world' = w
    /\ body' = [x |-> x, y |-> Origin, target_x |-> NoCoord,
                target_y |-> NoCoord, npc_type |-> type]
    /\ UNCHANGED <<now, npcVars, ctlVars, joining, logVars, executed, reached, parsed>>

\* npc.current_task = task; npc.execute_task(player, world), for the
\* tasks the mock generator has for the npc_type of the NPC whose
\* behaviours walk to a target of the world or stand still
Act(task) ==
    /\ world # NoWorld
    /\ task \in TasksOf(TypedTaskOptions([npc_type |-> body.npc_type]))
                   \ {TaskNames.follow_player, TaskNames.guard_position,
                      TaskNames.greet_nearby}
    /\ executed' = Executed(body.npc_type, task)
    /\ body' \in Behave(executed'.behaviour, body, world)
    /\ body'.x \in (Origin - MaxWalk)..(Origin + MaxLine + MaxWalk)
    /\ UNCHANGED <<now, npcVars, ctlVars, joining, logVars, reached, parsed, world>>

NextB ==
    \/ \E type \in NpcTypes : \E w \in Worlds(type) :
       \E x \in {Origin, Origin + 1} : CreateWorld(type, w, x)
    \/ \E task \in Range(TaskNames) : Act(task)

SpecB == Init /\ [][NextB]_vars

(***************************************************************************)
(* C34: the target is replaced on arrival                                  *)
(***************************************************************************)
\* the behaviours that take a new target
Retargeting ==
    {"patrol", "wander", "tend_crops", "rest_at_home", "talk_to_others",
     "inspect_surroundings", "sell_wares"}

\* the step is a call of execute_task
Acts == \E task \in Range(TaskNames) : Act(task)

\* the NPC has a target and has reached it
Arrived(b) ==
    b.target_x # NoCoord /\ b.target_y # NoCoord /\ has_reached_target(b)

PositionOf(b) == <<b.x, b.y>>
TargetOf(b) == <<b.target_x, b.target_y>>

\* the NPC with its target cleared
WithoutTarget(b) == [b EXCEPT !.target_x = NoCoord, !.target_y = NoCoord]

\* a call of a retargeting behaviour by an NPC that has reached its target
\* ends as the call by that NPC with no target ends: with a target newly
\* taken and a step toward it, and not with the old target kept
ReplacedOnArrival ==
    Acts /\ executed'.behaviour \in Retargeting /\ Arrived(body) =>
        body' \in Behave(executed'.behaviour, WithoutTarget(body), world)

\* C34: in every world, the worlds with no tree, no house and no other
\* NPC among them, an NPC that has reached its target and executes patrol,
\* wander, tend_crops, rest_at_home, talk_to_others, inspect_surroundings
\* or sell_wares has its target replaced before it moves: it never takes a
\* step toward the target it had already reached.
C34_TargetReplacedOnArrival == [][ReplacedOnArrival]_vars

\* the behaviour has something in the world to take a target from
HasCandidates(behaviour, w) ==
    LET kinds == {obj.obj_type : obj \in w.objects}
    IN  CASE behaviour = "tend_crops" -> "tree" \in kinds
          [] behaviour = "rest_at_home" -> "house" \in kinds
          [] behaviour = "talk_to_others" -> w.npcs.others # {}
          [] behaviour = "inspect_surroundings" -> kinds # {} \/ w.npcs.self
          [] behaviour = "sell_wares" -> "house" \in kinds \/ w.npcs.self
          [] OTHER -> TRUE

\* C34, for the worlds that hold an object or NPC of the category the
\* behaviour looks for: the target is replaced on arrival before the NPC
\* moves.
C34_ReplacedWhenCandidates ==
    [][HasCandidates(executed'.behaviour, world) => ReplacedOnArrival]_vars

(***************************************************************************)
(* C35: manage_inventory picks a point once and stops there                *)
(***************************************************************************)
\* a call of manage_inventory chooses a target when the NPC has none,
\* keeps the target the NPC has, and leaves an NPC that has reached its
\* target where it is
StationaryPoint ==
    Acts /\ executed'.behaviour = "manage_inventory" =>
        /\ body.target_x = NoCoord => body'.target_x # NoCoord
        /\ body.target_x # NoCoord => TargetOf(body') = TargetOf(body)
        /\ Arrived(body) => PositionOf(body') = PositionOf(body)

\* C35: under manage_inventory a target is chosen only when the NPC has
\* none, a target the NPC has is never changed, and an NPC that has
\* reached its target is at the same position after every later call.
C35_StationaryPoint == [][StationaryPoint]_vars

\* C35 witness: a merchant under manage_inventory has reached its target
\* without standing on it, so that a step toward it would move the NPC.
C35_Witness ==
    /\ executed.behaviour = "manage_inventory"
    /\ Arrived(body)
    /\ body.target_x # Coord(body.x)

====
